---------------------------- MODULE Spec2Model ----------------------------
(***************************************************************************)
(* conmand: the block tokenizer (parser/config_parser.rs) driven by the    *)
(* state table (parser/parser_state.rs), the jls line tokenizer and        *)
(* directive classifier (jls/command.rs), the name-keyed Configuration     *)
(* (jls/configuration.rs) and the flat line parser (config_parser.rs).     *)
(*                                                                         *)
(* A character is a one-element token.  A text (Rust String / &str) is a   *)
(* sequence of characters.  The state stack is a sequence whose last       *)
(* element is the top (Vec::push / Vec::pop / Vec::last).                  *)
(***************************************************************************)
EXTENDS Integers, Sequences, FiniteSets, TLC

VARIABLES
    state_stack,   \* ConfigParser.state_stack
    config,        \* the Configuration built by the running parse_content call
    content,       \* the argument of the running parse_content call
    pos,           \* number of characters the for loop has taken from content
    pc,            \* "loop" | "done" (returned Ok) | "idle" | "panicked" | ...
    ctor,          \* how the parser was built: "new" | "default"
    fresh,         \* TRUE while the running call is the parser's first
    shape,         \* how content was drawn (history)
    halted,        \* the state table has returned Invalid in this call (history)
    entered,       \* times InDirective was entered in this call (history)
    terminated,    \* directive-terminating ';' read in this call (history)
    intr,          \* the last comment start and what followed it (history)
    from_state,    \* state table check: the state next_state is applied to
    token,         \* state table check: the character next_state is applied to
    to_state,      \* state table check: the result of next_state
    raw,           \* tokenize_jls_line: the argument
    line,          \* how raw was drawn (history)
    line_pos,      \* number of characters the for loop has taken from raw
    result,        \* tokenize_jls_line: result
    in_quotes,     \* tokenize_jls_line: in_quotes
    current,       \* tokenize_jls_line: current
    flushes,       \* positions at which a token was pushed on result (history)
    directive,     \* how the argument of directive_to_paramter was drawn
    parsed,        \* what directive_to_paramter returned
    raw_directives, \* how the argument of convert_to_parameter_list was drawn
    parameters,    \* what convert_to_parameter_list returned (the Ok value)
    jail,          \* Configuration.directives built from parameters
    indexed,       \* what jail[name] came to
    parsers,       \* two ConfigParser instances and their running calls
    block_line,    \* flat parser: how the argument of parse_config_line was drawn
    config_item,   \* flat parser: the ConfigItem parse_config_line fills
    block_lines,   \* flat parser: how the lines after the `name {` line were drawn
    block_i,       \* flat parser: lines of the block the inner loop has taken
    stdout,        \* list_jails: output.stdout of the jls process
    jails          \* list_jails: the Vec<Configuration> inside the Ok it returns

parser_vars == <<state_stack, config, content, pos, ctor, fresh, shape,
                 halted, entered, terminated, intr, from_state, token,
                 to_state>>

jls_vars == <<raw, line, line_pos, result, in_quotes, current, flushes,
              directive, parsed, raw_directives, parameters, jail, indexed>>

flat_vars == <<block_line, config_item, block_lines, block_i>>

list_vars == <<stdout, jails>>

vars == <<parser_vars, pc, jls_vars, parsers, flat_vars, list_vars>>

-----------------------------------------------------------------------------
(* Characters *)

\* U+00E9, a letter outside ASCII: alphabetic and alphanumeric, not ASCII.
EAcute == "U+00E9"

AsciiLetters == {"a", "b"}
AsciiDigits == {"1"}
NonAsciiLetters == {EAcute}
AsciiSpaces == {" ", "\t", "\n", "\f", "\r"}

\* The characters inputs are drawn from: one or two of every class the
\* state table distinguishes.
Chars == {"a", "1", " ", "\n", "{", "}", "#", ";", ".", EAcute}

is_ascii_whitespace(c) == c \in AsciiSpaces

is_ascii_alphanumeric(c) == c \in AsciiLetters \cup AsciiDigits

is_alphanumeric(c) == c \in AsciiLetters \cup AsciiDigits \cup NonAsciiLetters

is_alphabetic(c) == c \in AsciiLetters \cup NonAsciiLetters

-----------------------------------------------------------------------------
(* parser_state.rs *)

ParserState == {"Starting", "Name", "StartBlock", "EndBlock", "Seeking",
                "Comment", "InDirective", "Invalid"}

next_state_digit_starts_directive(state, tok) ==
    CASE state = "Starting" ->
            IF is_ascii_whitespace(tok) THEN "Starting"
            ELSE IF is_ascii_alphanumeric(tok) THEN "Name"
            ELSE IF tok = "{" THEN "StartBlock"
            ELSE IF tok = "#" THEN "Comment"
            ELSE "Invalid"
      [] state = "Name" ->
            IF is_alphanumeric(tok) THEN "Name"
            ELSE IF is_ascii_whitespace(tok) THEN "Starting"
            ELSE IF tok = "#" THEN "Comment"
            ELSE IF tok = "{" THEN "StartBlock"
            ELSE "Invalid"
      [] state = "StartBlock" ->
            IF is_ascii_whitespace(tok) THEN "Seeking"
            ELSE IF is_alphanumeric(tok) THEN "InDirective"
            ELSE IF tok = "#" THEN "Comment"
            ELSE IF tok = "}" THEN "EndBlock"
            ELSE "Invalid"
      [] state = "EndBlock" ->
            IF is_ascii_whitespace(tok) THEN "EndBlock"
            ELSE IF tok = "#" THEN "Comment"
            ELSE "Invalid"
      [] state = "Seeking" ->
            IF is_ascii_whitespace(tok) THEN "Seeking"
            ELSE IF tok = "#" THEN "Comment"
            ELSE IF is_ascii_alphanumeric(tok) THEN "InDirective"
            ELSE IF tok = "}" THEN "EndBlock"
            ELSE "Invalid"
      [] state = "Comment" ->
            IF tok = "\n" THEN "Seeking" ELSE "Comment"
      [] state = "InDirective" ->
            IF tok = ";" THEN "Seeking"
            ELSE IF tok = "#" THEN "Comment"
            ELSE "InDirective"
      [] OTHER -> "Invalid"

next_state_brace_ends_directive(state, tok) ==
    CASE state = "Starting" ->
            IF is_ascii_whitespace(tok) THEN "Starting"
            ELSE IF is_ascii_alphanumeric(tok) THEN "Name"
            ELSE IF tok = "{" THEN "StartBlock"
            ELSE IF tok = "#" THEN "Comment"
            ELSE "Invalid"
      [] state = "Name" ->
            IF is_alphanumeric(tok) THEN "Name"
            ELSE IF is_ascii_whitespace(tok) THEN "Starting"
            ELSE IF tok = "#" THEN "Comment"
            ELSE IF tok = "{" THEN "StartBlock"
            ELSE "Invalid"
      [] state = "StartBlock" ->
            IF is_ascii_whitespace(tok) THEN "Seeking"
            ELSE IF is_alphabetic(tok) THEN "InDirective"
            ELSE IF tok = "#" THEN "Comment"
            ELSE IF tok = "}" THEN "EndBlock"
            ELSE "Invalid"
      [] state = "EndBlock" ->
            IF is_ascii_whitespace(tok) THEN "EndBlock"
            ELSE IF tok = "#" THEN "Comment"
            ELSE "Invalid"
      [] state = "Seeking" ->
            IF is_ascii_whitespace(tok) THEN "Seeking"
            ELSE IF tok = "#" THEN "Comment"
            ELSE IF is_ascii_alphanumeric(tok) THEN "InDirective"
            ELSE IF tok = "}" THEN "EndBlock"
            ELSE "Invalid"
      [] state = "Comment" ->
            IF tok = "\n" THEN "Seeking" ELSE "Comment"
      [] state = "InDirective" ->
            IF tok = ";" THEN "Seeking"
            ELSE IF tok = "#" THEN "Comment"
            ELSE IF tok = "{" THEN "Invalid"
            ELSE "InDirective"
      [] OTHER -> "Invalid"

next_state_brace_closes_directive(state, tok) ==
    CASE state = "Starting" ->
            IF is_ascii_whitespace(tok) THEN "Starting"
            ELSE IF is_ascii_alphanumeric(tok) THEN "Name"
            ELSE IF tok = "{" THEN "StartBlock"
            ELSE IF tok = "#" THEN "Comment"
            ELSE "Invalid"
      [] state = "Name" ->
            IF is_alphanumeric(tok) THEN "Name"
            ELSE IF is_ascii_whitespace(tok) THEN "Starting"
            ELSE IF tok = "#" THEN "Comment"
            ELSE IF tok = "{" THEN "StartBlock"
            ELSE "Invalid"
      [] state = "StartBlock" ->
            IF is_ascii_whitespace(tok) THEN "Seeking"
            ELSE IF is_alphabetic(tok) THEN "InDirective"
            ELSE IF tok = "#" THEN "Comment"
            ELSE IF tok = "}" THEN "EndBlock"
            ELSE "Invalid"
      [] state = "EndBlock" ->
            IF is_ascii_whitespace(tok) THEN "EndBlock"
            ELSE IF tok = "#" THEN "Comment"
            ELSE "Invalid"
      [] state = "Seeking" ->
            IF is_ascii_whitespace(tok) THEN "Seeking"
            ELSE IF tok = "#" THEN "Comment"
            ELSE IF is_ascii_alphanumeric(tok) THEN "InDirective"
            ELSE IF tok = "}" THEN "EndBlock"
            ELSE "Invalid"
      [] state = "Comment" ->
            IF tok = "\n" THEN "Seeking" ELSE "Comment"
      [] state = "InDirective" ->
            IF tok = ";" THEN "Seeking"
            ELSE IF tok = "#" THEN "Comment"
            ELSE IF tok = "}" THEN "EndBlock"
            ELSE "InDirective"
      [] OTHER -> "Invalid"

next_state(state, tok) ==
    CASE state = "Starting" ->
            IF is_ascii_whitespace(tok) THEN "Starting"
            ELSE IF is_ascii_alphanumeric(tok) THEN "Name"
            ELSE IF tok = "{" THEN "StartBlock"
            ELSE IF tok = "#" THEN "Comment"
            ELSE "Invalid"
      [] state = "Name" ->
            IF is_alphanumeric(tok) THEN "Name"
            ELSE IF is_ascii_whitespace(tok) THEN "Starting"
            ELSE IF tok = "#" THEN "Comment"
            ELSE IF tok = "{" THEN "StartBlock"
            ELSE "Invalid"
      [] state = "StartBlock" ->
            IF is_ascii_whitespace(tok) THEN "Seeking"
            ELSE IF is_alphabetic(tok) THEN "InDirective"
            ELSE IF tok = "#" THEN "Comment"
            ELSE IF tok = "}" THEN "EndBlock"
            ELSE "Invalid"
      [] state = "EndBlock" ->
            IF is_ascii_whitespace(tok) THEN "EndBlock"
            ELSE IF tok = "#" THEN "Comment"
            ELSE "Invalid"
      [] state = "Seeking" ->
            IF is_ascii_whitespace(tok) THEN "Seeking"
            ELSE IF tok = "#" THEN "Comment"
            ELSE IF is_ascii_alphanumeric(tok) THEN "InDirective"
            ELSE IF tok = "}" THEN "EndBlock"
            ELSE "Invalid"
      [] state = "Comment" ->
            IF tok = "\n" THEN "Seeking" ELSE "Comment"
      [] state = "InDirective" ->
            IF tok = ";" THEN "Seeking"
            ELSE IF tok = "#" THEN "Comment"
            ELSE "InDirective"
      [] OTHER -> "Invalid"

-----------------------------------------------------------------------------
(* config_parser.rs: the transition handlers.  A parser value p is the     *)
(* pair of the ConfigParser and the Configuration it is filling:           *)
(* [state_stack, name, directives, panicked].                              *)

\* Vec::last as an Option: "None" for the empty stack.
last(stack) == IF stack = <<>> THEN "None" ELSE stack[Len(stack)]

\* Vec::pop: the stack without its top (unchanged when empty).
pop(stack) == IF stack = <<>> THEN <<>> ELSE SubSeq(stack, 1, Len(stack) - 1)

\* ConfigParser::new
new == <<"Starting">>

default_holds_starting == <<"Starting">>

\* #[derive(Default)]: an empty Vec
default == <<>>

\* Configuration::default
Configuration_default == [name |-> <<>>, directives |-> <<>>]

start_name_transition_unseeded(p, tok) ==
    [p EXCEPT !.name = <<>>,
              !.state_stack = Append(@, "Name")]

start_name_transition_keeps_buffer(p, tok) ==
    [p EXCEPT !.name = Append(@, tok),
              !.state_stack = Append(@, "Name")]

start_name_transition(p, tok) ==
    [p EXCEPT !.name = <<tok>>,
              !.state_stack = Append(@, "Name")]

end_name_transition_checks_new_top(p, tok) ==
    [p EXCEPT !.state_stack = pop(@),
              !.panicked = (last(pop(p.state_stack)) # "Name")]

end_name_transition(p, tok) ==
    [p EXCEPT !.state_stack = pop(@),
              !.panicked = (last(p.state_stack) # "Name")]

start_block_transition_keeps_name(p, tok) ==
    [p EXCEPT !.state_stack = Append(@, "StartBlock")]

start_block_transition(p, tok) ==
    [p EXCEPT !.state_stack =
        Append(IF last(@) = "Name" THEN pop(@) ELSE @, "StartBlock")]

start_comment_transition_keeps_name(p, tok) ==
    [p EXCEPT !.state_stack = Append(@, "Comment")]

start_comment_transition(p, tok) ==
    [p EXCEPT !.state_stack =
        Append(IF last(@) = "Name" THEN pop(@) ELSE @, "Comment")]

seeking_transition_always_pushes(p, tok) ==
    IF p.state_stack = <<>> THEN p
    ELSE [p EXCEPT !.state_stack = Append(@, "Seeking")]

seeking_transition(p, tok) ==
    IF p.state_stack = <<>> THEN p
    ELSE IF last(p.state_stack) = "InDirective"
         THEN [p EXCEPT !.state_stack = pop(@)]
         ELSE [p EXCEPT !.state_stack = Append(@, "Seeking")]

in_directive_transition_defers_entry(p, tok) ==
    [p EXCEPT !.state_stack = Append(@, "InDirective")]

in_directive_transition(p, tok) ==
    [p EXCEPT !.directives = Append(@, <<tok>>),
              !.state_stack = Append(@, "InDirective")]

pop_through_start_block_all(stack) == <<>>

\* while let Some(state) = pop() { if state == StartBlock { break } }
RECURSIVE pop_through_start_block(_)
pop_through_start_block(stack) ==
    IF stack = <<>> THEN <<>>
    ELSE IF last(stack) = "StartBlock" THEN pop(stack)
    ELSE pop_through_start_block(pop(stack))

end_block_transition_pops_one(p, tok) ==
    [p EXCEPT !.state_stack = Append(pop(@), "EndBlock")]

end_block_transition(p, tok) ==
    [p EXCEPT !.state_stack =
        Append(pop_through_start_block(@), "EndBlock")]

end_comment_transition_pushes_seeking(p, tok) ==
    [p EXCEPT !.state_stack = Append(pop(@), "Seeking")]

end_comment_transition(p, tok) ==
    [p EXCEPT !.state_stack = pop(@)]

handle_transition(p, tok, from, to) ==
    CASE from = "Starting" ->
            ( CASE to = "Name" -> start_name_transition(p, tok)
                [] to = "StartBlock" -> start_block_transition(p, tok)
                [] to = "Comment" -> start_comment_transition(p, tok)
                [] OTHER -> p )
      [] from = "Name" ->
            ( CASE to = "Starting" -> end_name_transition(p, tok)
                [] to = "StartBlock" -> start_block_transition(p, tok)
                [] to = "Comment" -> start_comment_transition(p, tok)
                [] OTHER -> p )
      [] from = "StartBlock" ->
            ( CASE to = "Seeking" -> seeking_transition(p, tok)
                [] to = "InDirective" -> in_directive_transition(p, tok)
                [] to = "Comment" -> start_comment_transition(p, tok)
                [] OTHER -> p )
      [] from = "EndBlock" -> p
      [] from = "Seeking" ->
            ( CASE to = "InDirective" -> in_directive_transition(p, tok)
                [] to = "Comment" -> start_comment_transition(p, tok)
                [] to = "EndBlock" -> end_block_transition(p, tok)
                [] OTHER -> p )
      [] from = "Comment" ->
            ( CASE to = "Seeking" -> end_comment_transition(p, tok)
                [] OTHER -> p )
      [] from = "InDirective" ->
            ( CASE to = "Comment" -> start_comment_transition(p, tok)
                [] to = "Seeking" -> seeking_transition(p, tok)
                [] to = "EndBlock" -> end_block_transition(p, tok)
                [] OTHER -> p )
      [] OTHER -> p

\* *self.state_stack.last().unwrap_or(&ParserState::Invalid)
current_state(stack) == IF stack = <<>> THEN "Invalid" ELSE last(stack)

push_raw_new_entry(directives, val) == Append(directives, <<val>>)

\* directives.last_mut() then raw.push(val): nothing for an empty list.
push_raw(directives, val) ==
    IF directives = <<>> THEN directives
    ELSE [directives EXCEPT ![Len(directives)] = Append(@, val)]

loop_body_keeps_comment_text(p, val) ==
    LET cur == current_state(p.state_stack)
        nxt == next_state(cur, val)
    IN  IF cur # nxt THEN handle_transition(p, val, cur, nxt)
        ELSE IF nxt \in {"InDirective", "Comment"}
             THEN [p EXCEPT !.directives = push_raw(@, val)]
        ELSE IF nxt = "Name"
             THEN [p EXCEPT !.name = Append(@, val)]
        ELSE p

loop_body_quote_aware(p, val) ==
    LET cur == current_state(p.state_stack)
        nxt == next_state(cur, val)
        open == /\ cur = "InDirective" /\ p.directives # <<>>
                /\ LET d == last(p.directives)
                   IN  Cardinality({i \in 1..Len(d) : d[i] = "\""}) % 2 = 1
    IN  IF open THEN [p EXCEPT !.directives = push_raw(@, val)]
        ELSE IF cur # nxt THEN handle_transition(p, val, cur, nxt)
        ELSE IF nxt = "InDirective"
             THEN [p EXCEPT !.directives = push_raw(@, val)]
        ELSE IF nxt = "Name"
             THEN [p EXCEPT !.name = Append(@, val)]
        ELSE p

\* One iteration of the for loop of parse_content that does not break.
loop_body(p, val) ==
    LET cur == current_state(p.state_stack)
        nxt == next_state(cur, val)
    IN  IF cur # nxt THEN handle_transition(p, val, cur, nxt)
        ELSE IF nxt = "InDirective"
             THEN [p EXCEPT !.directives = push_raw(@, val)]
        ELSE IF nxt = "Name"
             THEN [p EXCEPT !.name = Append(@, val)]
        ELSE p

\* parse_content as a function of the stack it starts from and the text:
\* the parser value when the call ends (returned or panicked).
RECURSIVE run_from(_, _, _)
run_from(p, text, i) ==
    IF i > Len(text) \/ p.panicked \/ current_state(p.state_stack) = "Invalid"
    THEN p
    ELSE run_from(loop_body(p, text[i]), text, i + 1)

parse_content(stack, text) ==
    run_from([state_stack |-> stack, name |-> <<>>, directives |-> <<>>,
              panicked |-> FALSE], text, 1)

-----------------------------------------------------------------------------
(* The texts parse_content is called with *)

\* Longest arbitrary text given to the first call on a parser built by new.
MaxRaw == 3

\* Longest arbitrary text given to a later call on the same parser, and to
\* a parser built by default.
MaxAgain == 2

\* Most directives in a well-formed block.
MaxDirs == 2

Texts(n) == UNION {[1..k -> Chars] : k \in 0..n}

Input(kind, name, dirs, text) ==
    [kind |-> kind, name |-> name, dirs |-> dirs, text |-> text]

RawInputs(n) == {Input("raw", <<>>, <<>>, t) : t \in Texts(n)}

\* Non-empty ASCII-alphanumeric names.
Names == {<<"a">>, <<"1">>, <<"a", "1">>, <<"1", "a">>}

\* X { }   X{}   X {\n}
EmptyBlocks == {<<" ", "{", " ", "}">>, <<"{", "}">>, <<" ", "{", "\n", "}">>}

EmptyBlockInputs ==
    {Input("empty_block", x, <<>>, x \o b) : x \in Names, b \in EmptyBlocks}

\* Directive texts: an ASCII letter, then anything but ';' and '#'.
Directives == {<<"a">>, <<"a", "=", "1", " ", "}">>, <<"a", "{", "\n", ".", EAcute>>}

\* What may stand between the name and '{'.
Leads == {<<>>, <<" ">>, <<"\n", "#", "{", "\n">>}

\* What may stand between '{', the directives and '}': nothing, whitespace,
\* whole-line comments.
Gaps == {<<>>, <<" ">>, <<"\n", " ">>, <<"#", ";", "}", "\n">>, <<" ", "#", "a", "\n", " ">>}

RECURSIVE block_body(_, _)
block_body(ds, gap) ==
    IF ds = <<>> THEN <<>>
    ELSE gap \o Head(ds) \o <<";">> \o block_body(Tail(ds), gap)

WellFormedInputs ==
    {Input("well_formed", x, ds,
           x \o lead \o <<"{">> \o block_body(ds, gap) \o gap \o <<"}">>) :
        x \in {<<"a">>, <<"1", "a">>},
        ds \in UNION {[1..k -> Directives] : k \in 0..MaxDirs},
        lead \in Leads, gap \in Gaps}

\* Ways into a block, with the directives they hold: after '{', after
\* whitespace, after an earlier directive.
Openings == {[text |-> <<"{">>, dirs |-> <<>>],
             [text |-> <<"{", " ">>, dirs |-> <<>>],
             [text |-> <<"{", "a", ";">>, dirs |-> << <<"a">> >>],
             [text |-> <<"a", " ", "{", "\n", "a", "1", ";", " ">>,
              dirs |-> << <<"a", "1">> >>]}

\* Comment texts (no newline).
Comments == {<<>>, <<"a">>, <<";">>, <<"#", " ", "}">>, <<"{", EAcute>>}

\* The two halves of a directive split by a comment.
Halves == {<<>>, <<"a">>, <<"a", " ">>, <<"a", "=", "1">>, <<" ", "}">>,
           <<"\n", "{">>, <<"1", EAcute, ".">>}

\* P '#' C '\n' S ';' inside a block, P S being a directive text.
SplitDirectiveInputs ==
    {Input("split_directive", <<>>, o.dirs \o << h[1] \o h[2] >>,
           o.text \o h[1] \o <<"#">> \o c \o <<"\n">> \o h[2] \o <<";">>) :
        o \in Openings, c \in Comments,
        h \in {g \in Halves \X Halves :
                 g[1] \o g[2] # <<>> /\ Head(g[1] \o g[2]) \in AsciiLetters}}

\* Texts that reach each state of the tokenizer.
Prefixes == {<<>>, <<"a">>, <<"a", " ">>, <<"a", "{">>, <<"{", " ">>,
             <<"{", "a">>, <<"{", " ", "a", "1">>, <<"{", " ", "}">>}

InterruptedInputs ==
    {Input("interrupted", <<>>, <<>>, pre \o <<"#">> \o c \o <<"\n">> \o post) :
        pre \in Prefixes, c \in Comments, post \in Texts(1)}

\* The texts of a list with sep between them.
RECURSIVE join(_, _)
join(tokens, sep) ==
    IF tokens = <<>> THEN <<>>
    ELSE IF Len(tokens) = 1 THEN tokens[1]
    ELSE tokens[1] \o sep \o join(Tail(tokens), sep)

\* Two or three names separated by whitespace, then the block.
NameRuns == UNION {[1..n -> Names] : n \in {2, 3}}

NameRunInputs ==
    {Input("name_runs", runs[Len(runs)], <<>>, join(runs, ws) \o b) :
        runs \in NameRuns, ws \in {<<" ">>, <<"\n", " ">>}, b \in EmptyBlocks}

\* What follows the line of a directive with a quoted value, and the part of
\* it that a directive left open by that line takes in.
NextLines == {[text |-> <<"\n", "}">>, cont |-> <<"}">>],
              [text |-> <<"\n", "b", ";", "}">>, cont |-> <<"b">>],
              [text |-> <<" ", "\n", " ", "b", ";", "}">>, cont |-> <<" ", "b">>]}

\* a="L;R";  and  a="L#R";  inside a block: a quoted value that holds ';' or
\* '#'.  dirs holds what the first directive comes to.
QuotedInputs ==
    {Input("quoted", <<>>,
           << <<"a", "=", "\"">> \o l \o (IF sep = "#" THEN nl.cont ELSE <<>>) >>,
           open \o <<"a", "=", "\"">> \o l \o <<sep>> \o r \o <<"\"", ";">>
                \o nl.text) :
        open \in {<<"{">>, <<"{", " ">>, <<"a", " ", "{", "\n">>},
        l \in {<<>>, <<"b">>}, r \in {<<>>, <<"b">>},
        sep \in {";", "#"}, nl \in NextLines}

Inputs == RawInputs(MaxRaw) \cup EmptyBlockInputs \cup WellFormedInputs
            \cup SplitDirectiveInputs \cup InterruptedInputs
            \cup NameRunInputs \cup QuotedInputs

AgainInputs == RawInputs(MaxAgain)

-----------------------------------------------------------------------------
(* src/conmand/src/jls/command.rs: tokenize_jls_line *)

\* The locals of tokenize_jls_line.
Tokenizer(res, quotes, cur) ==
    [result |-> res, in_quotes |-> quotes, current |-> cur]

\* let mut result = vec![]; let mut in_quotes = false;
\* let mut current = String::new();
tokenize_start == Tokenizer(<<>>, FALSE, <<>>)

\* The body of `for char in raw.chars()`: the tests in the order of the if
\* chain.
tokenize_char(t, char) ==
    IF char # " "
    THEN [t EXCEPT !.current = Append(@, char)]
    ELSE IF char = "\"" /\ ~t.in_quotes
    THEN [t EXCEPT !.in_quotes = TRUE, !.current = Append(@, char)]
    ELSE IF t.in_quotes
    THEN [t EXCEPT !.in_quotes = IF char = "\"" THEN FALSE ELSE @,
                   !.current = Append(@, char)]
    ELSE [t EXCEPT !.result = IF t.current # <<>>
                              THEN Append(@, t.current) ELSE @,
                   !.current = <<>>]

tokenize_finish_drops_current(t) == t.result

\* After the loop: if current != "" { result.push(current) }; Ok(result)
tokenize_finish(t) ==
    IF t.current # <<>> THEN Append(t.result, t.current) ELSE t.result

-----------------------------------------------------------------------------
(* Lines given to tokenize_jls_line *)

LineChars == {"a", " ", "\""}

\* Longest line drawn character by character.
MaxLine == 6

\* Most tokens in a line built from tokens and separators.
MaxTokens == 3

Lines(n) == UNION {[1..k -> LineChars] : k \in 0..n}

LineInput(kind, tokens, text) ==
    [kind |-> kind, tokens |-> tokens, text |-> text]

NoLine == LineInput("none", <<>>, <<>>)

RawLines == {LineInput("raw", <<>>, t) : t \in Lines(MaxLine)}

\* Tokens without a space; some hold quotes.
Tokens == {<<"a">>, <<"a", "=", "1">>, <<"e", "=", "\"", "\"">>,
           <<"\"", "a">>}

Separators == {<<" ">>, <<" ", " ">>}

Margins == {[lead |-> <<>>, trail |-> <<>>], [lead |-> <<" ">>, trail |-> <<>>],
            [lead |-> <<>>, trail |-> <<" ", " ">>]}

TokenLists(n) == UNION {[1..k -> Tokens] : k \in 1..n}

SpacedLines ==
    {LineInput("spaced", ts, m.lead \o join(ts, sep) \o m.trail) :
        ts \in TokenLists(MaxTokens), sep \in Separators, m \in Margins}

\* The line of test_tokenize_jls_line.
TestTokens ==
    <<<<"d", "e", "v", "f", "s", "_", "r", "u", "l", "e", "s", "e", "t", "=", "5">>,
      <<"n", "o", "d", "y", "i", "n", "g">>,
      <<"e", "n", "f", "o", "r", "c", "e", "_", "s", "t", "a", "t", "f", "s", "=", "2">>,
      <<"e", "n", "v", "=", "\"", "\"">>,
      <<"h", "o", "s", "t", "=", "n", "e", "w">>,
      <<"i", "p", "4", "=", "d", "i", "s", "a", "b", "l", "e">>>>

TestLine == LineInput("spaced", TestTokens, join(TestTokens, <<" ">>))

LineInputs == RawLines \cup SpacedLines \cup {TestLine}

\* The first k characters of text hold an odd number of '"': position k is
\* inside a quoted span.
InsideQuotes(text, k) ==
    Cardinality({i \in 1..k : text[i] = "\""}) % 2 = 1

\* The position of the '"' that opened the span position k is inside.
OpenQuote(text, k) ==
    CHOOSE i \in 1..k : text[i] = "\"" /\ \A j \in (i + 1)..k : text[j] # "\""

-----------------------------------------------------------------------------
(* src/conmand/src/jls/command.rs: the directive classifier *)

LowerCase == {"a", "b", "c", "d", "e", "f", "g", "h", "i", "j", "k", "l", "m",
              "n", "o", "p", "q", "r", "s", "t", "u", "v", "w", "x", "y", "z"}

UpperCase == {"A", "B", "C", "D", "E", "F", "G", "H", "I", "J", "K", "L", "M",
              "N", "O", "P", "Q", "R", "S", "T", "U", "V", "W", "X", "Y", "Z"}

DecimalDigits == <<"0", "1", "2", "3", "4", "5", "6", "7", "8", "9">>

AsciiDecimal == {DecimalDigits[i] : i \in 1..10}

\* ARABIC-INDIC DIGIT THREE, a decimal digit outside ASCII
ArabicThree == "U+0663"

\* \d of the regex crate (Unicode decimal digit)
is_digit(c) == c \in AsciiDecimal \cup {ArabicThree}

\* \w of the regex crate (Unicode word character)
is_word(c) == c \in LowerCase \cup UpperCase \cup {EAcute, "_"} \/ is_digit(c)

\* [\w+\.]
is_name_char(c) == is_word(c) \/ c \in {"+", "."}

\* . of the regex crate: any character but the newline
is_dot(c) == c # "\n"

\* i32::MAX
I32_MAX == 2147483647

\* char::to_digit(10) of an ASCII digit
to_digit(c) == (CHOOSE i \in 1..10 : DecimalDigits[i] = c) - 1

\* The digit loop of i32::from_str: checked multiply and add, an error on a
\* character that is not an ASCII digit.
RECURSIVE parse_from(_, _, _)
parse_from(text, i, acc) ==
    IF i > Len(text) THEN [ok |-> TRUE, n |-> acc]
    ELSE IF text[i] \notin AsciiDecimal THEN [ok |-> FALSE, n |-> 0]
    ELSE LET d == to_digit(text[i])
         IN  IF acc > (I32_MAX - d) \div 10
             THEN [ok |-> FALSE, n |-> 0]
             ELSE parse_from(text, i + 1, acc * 10 + d)

parse_i32_saturating(text) ==
    LET r == parse_from(text, 1, 0)
    IN  IF r.ok THEN r ELSE [ok |-> TRUE, n |-> I32_MAX]

\* numeric.as_str().parse::<i32>() on a text without a sign
parse_i32(text) ==
    IF text = <<>> THEN [ok |-> FALSE, n |-> 0] ELSE parse_from(text, 1, 0)

\* A capture group: Some(text) or None.
Group(text) == [some |-> TRUE, text |-> text]

NoGroup == [some |-> FALSE, text |-> <<>>]

Captures(name, disabled, numeric, quoted, unquoted) ==
    [matched |-> TRUE, name |-> name, disabled |-> disabled,
     numeric |-> numeric, quoted |-> quoted, unquoted |-> unquoted]

NoCaptures ==
    [matched |-> FALSE, name |-> NoGroup, disabled |-> NoGroup,
     numeric |-> NoGroup, quoted |-> NoGroup, unquoted |-> NoGroup]

Disable == <<"d", "i", "s", "a", "b", "l", "e">>

All(text, Class(_)) == \A i \in 1..Len(text) : Class(text[i])

\* The text between the first and the last character.
Inner(v) == SubSeq(v, 2, Len(v) - 1)

\* The alternatives after '=' that reach `$`, named by capture group:
\* (?<disabled>disable) | (?<numeric>\d+) | "(?<quoted>.*)" | (?<unquoted>\w*)
Alternatives(v) ==
    [disabled |-> v = Disable,
     numeric |-> v # <<>> /\ All(v, is_digit),
     quoted |-> /\ Len(v) >= 2
                /\ v[1] = "\""
                /\ v[Len(v)] = "\""
                /\ All(Inner(v), is_dot),
     unquoted |-> All(v, is_word)]

value_match_bare_first(name, v) ==
    LET alt == Alternatives(v)
    IN  IF alt.unquoted
        THEN Captures(Group(name), NoGroup, NoGroup, NoGroup, Group(v))
        ELSE IF alt.disabled
        THEN Captures(Group(name), Group(v), NoGroup, NoGroup, NoGroup)
        ELSE IF alt.numeric
        THEN Captures(Group(name), NoGroup, Group(v), NoGroup, NoGroup)
        ELSE IF alt.quoted
        THEN Captures(Group(name), NoGroup, NoGroup, Group(Inner(v)), NoGroup)
        ELSE NoCaptures

\* The group (?:=(...|...|...|...)) on the text v after '=': the match is
\* leftmost-first, the first alternative in the order written with which
\* the rest of the pattern (`$`) matches.
value_match(name, v) ==
    LET alt == Alternatives(v)
    IN  IF alt.disabled
        THEN Captures(Group(name), Group(v), NoGroup, NoGroup, NoGroup)
        ELSE IF alt.numeric
        THEN Captures(Group(name), NoGroup, Group(v), NoGroup, NoGroup)
        ELSE IF alt.quoted
        THEN Captures(Group(name), NoGroup, NoGroup, Group(Inner(v)), NoGroup)
        ELSE IF alt.unquoted
        THEN Captures(Group(name), NoGroup, NoGroup, NoGroup, Group(v))
        ELSE NoCaptures

\* The length of the longest prefix of [\w+\.] characters.
name_len(d) ==
    LET stops == {i \in 1..Len(d) : ~is_name_char(d[i])}
    IN  IF stops = {} THEN Len(d)
        ELSE (CHOOSE i \in stops : \A j \in stops : i <= j) - 1

\* expr.captures(directive) for CONFIG_DIRECTIVE_RE:
\* ^(?<name>[\w+\.]+)(?:=(...))?$
\* '=' is not a name character, so the name is the longest prefix of name
\* characters and what follows is the end of the text or '=' and a value.
captures(d) ==
    LET n == name_len(d)
        name == SubSeq(d, 1, n)
    IN  IF n = 0 THEN NoCaptures
        ELSE IF n = Len(d)
        THEN Captures(Group(name), NoGroup, NoGroup, NoGroup, NoGroup)
        ELSE IF d[n + 1] # "="
        THEN NoCaptures
        ELSE value_match(name, SubSeq(d, n + 2, Len(d)))

\* enum Parameters: one record shape for the three variants, the fields a
\* variant does not have left at a fixed value.
BooleanParameter(name, b) ==
    [variant |-> "BooleanParameter", name |-> name, bool |-> b, number |-> 0,
     string |-> <<>>]

StringParameter(name, s) ==
    [variant |-> "StringParameter", name |-> name, bool |-> FALSE,
     number |-> 0, string |-> s]

NumberParameter(name, n) ==
    [variant |-> "NumberParameter", name |-> name, bool |-> FALSE,
     number |-> n, string |-> <<>>]

\* Parameters::StringParameter("NO NAME".to_string(), "NO VALUE".to_string())
NoNameNoValue ==
    StringParameter(<<"N", "O", " ", "N", "A", "M", "E">>,
                    <<"N", "O", " ", "V", "A", "L", "U", "E">>)

\* Result<Parameters, Box<dyn Error>>
Ok(p) == [ok |-> TRUE, param |-> p, err |-> "None"]

Err(e) == [ok |-> FALSE, param |-> NoNameNoValue, err |-> e]

NoResult == Err("None")

directive_to_paramter_sentinel_on_mismatch(d) ==
    LET caps == captures(d)
    IN  IF caps.matched
        THEN IF caps.disabled.some
             THEN Ok(BooleanParameter(caps.name.text, FALSE))
             ELSE IF caps.numeric.some
             THEN LET number == parse_i32(caps.numeric.text)
                  IN  Ok(NumberParameter(caps.name.text,
                                         IF number.ok THEN number.n ELSE -1))
             ELSE IF caps.quoted.some
             THEN Ok(StringParameter(caps.name.text, caps.quoted.text))
             ELSE IF caps.unquoted.some
             THEN Ok(StringParameter(caps.name.text, caps.unquoted.text))
             ELSE Ok(BooleanParameter(caps.name.text, TRUE))
        ELSE Ok(NoNameNoValue)

directive_to_paramter_number_from_digits(d) ==
    LET caps == captures(d)
        lead == IF caps.matched /\ caps.unquoted.some
                THEN {i \in 1..Len(caps.unquoted.text) :
                        \A j \in 1..i : caps.unquoted.text[j] \in AsciiDecimal}
                ELSE {}
    IN  IF ~caps.matched THEN Err("directive does not match regex")
        ELSE IF caps.disabled.some
        THEN Ok(BooleanParameter(caps.name.text, FALSE))
        ELSE IF caps.numeric.some
        THEN LET number == parse_i32(caps.numeric.text)
             IN  Ok(NumberParameter(caps.name.text,
                                    IF number.ok THEN number.n ELSE -1))
        ELSE IF caps.quoted.some
        THEN Ok(StringParameter(caps.name.text, caps.quoted.text))
        ELSE IF caps.unquoted.some
        THEN IF lead # {}
             THEN Ok(NumberParameter(caps.name.text, -1))
             ELSE Ok(StringParameter(caps.name.text, caps.unquoted.text))
        ELSE Ok(BooleanParameter(caps.name.text, TRUE))

directive_to_paramter_keeps_quotes(d) ==
    LET caps == captures(d)
    IN  IF ~caps.matched THEN Err("directive does not match regex")
        ELSE IF caps.disabled.some
        THEN Ok(BooleanParameter(caps.name.text, FALSE))
        ELSE IF caps.numeric.some
        THEN LET number == parse_i32(caps.numeric.text)
             IN  Ok(NumberParameter(caps.name.text,
                                    IF number.ok THEN number.n ELSE -1))
        ELSE IF caps.quoted.some
        THEN Ok(StringParameter(caps.name.text,
                                <<"\"">> \o caps.quoted.text \o <<"\"">>))
        ELSE IF caps.unquoted.some
        THEN Ok(StringParameter(caps.name.text, caps.unquoted.text))
        ELSE Ok(BooleanParameter(caps.name.text, TRUE))

\* directive_to_paramter(expr, directive), expr being CONFIG_DIRECTIVE_RE
directive_to_paramter(d) ==
    LET caps == captures(d)
    IN  IF caps.matched
        THEN LET name == IF caps.name.some THEN caps.name.text ELSE <<>>
             IN  IF name # <<>>
                 THEN IF caps.disabled.some
                      THEN Ok(BooleanParameter(name, FALSE))
                      ELSE IF caps.numeric.some
                      THEN LET number == parse_i32(caps.numeric.text)
                           IN  IF number.ok
                               THEN Ok(NumberParameter(name, number.n))
                               ELSE Ok(NumberParameter(name, -1))
                      ELSE IF caps.quoted.some
                      THEN Ok(StringParameter(name, caps.quoted.text))
                      ELSE IF caps.unquoted.some
                      THEN Ok(StringParameter(name, caps.unquoted.text))
                      ELSE Ok(BooleanParameter(name, TRUE))
                 ELSE Ok(NoNameNoValue)
        ELSE Err("directive does not match regex")

IsOk(r) == r.ok

convert_to_parameter_list_skips_errors(list) ==
    LET all == [i \in 1..Len(list) |-> directive_to_paramter(list[i])]
        kept == SelectSeq(all, IsOk)
    IN  [i \in 1..Len(kept) |-> kept[i].param]

\* convert_to_parameter_list(raw): the value inside the Ok it returns.
\* Regex::new(CONFIG_DIRECTIVE_RE) compiles, so the `?` never returns.
convert_to_parameter_list(list) ==
    [i \in 1..Len(list) |->
        LET p == directive_to_paramter(list[i])
        IN  IF p.ok THEN p.param ELSE NoNameNoValue]

-----------------------------------------------------------------------------
(* Directives given to the classifier *)

\* How a directive text was built and what the grammar says it is.
DirectiveInput(kind, name, value, text, expect) ==
    [kind |-> kind, name |-> name, value |-> value, text |-> text,
     expect |-> expect]

NoDirective == DirectiveInput("none", <<>>, <<>>, <<>>, NoResult)

FlagInput(name) ==
    DirectiveInput("flag", name, <<>>, name, Ok(BooleanParameter(name, TRUE)))

DisableInput(name) ==
    DirectiveInput("disable", name, Disable, name \o <<"=">> \o Disable,
                   Ok(BooleanParameter(name, FALSE)))

DigitsInput(name, v, n) ==
    DirectiveInput("digits", name, v, name \o <<"=">> \o v,
                   Ok(NumberParameter(name, n)))

QuotedInput(name, inner) ==
    DirectiveInput("quoted", name, inner,
                   name \o <<"=", "\"">> \o inner \o <<"\"">>,
                   Ok(StringParameter(name, inner)))

BareInput(name, v) ==
    DirectiveInput("bare", name, v, name \o <<"=">> \o v,
                   Ok(StringParameter(name, v)))

EmptyInput(name) ==
    DirectiveInput("empty", name, <<>>, name \o <<"=">>,
                   Ok(StringParameter(name, <<>>)))

\* A value that starts with digits and is not all digits.
DigitsThenInput(name, v, expect) ==
    DirectiveInput("digits_then", name, v, name \o <<"=">> \o v, expect)

MismatchInput(text) ==
    DirectiveInput("mismatch", <<>>, <<>>, text,
                   Err("directive does not match regex"))

DirectiveNames == {<<"a">>, <<"a", ".", "b">>, <<"a", "_", "1">>, <<"a", "+">>,
                   <<"1">>, <<".">>}

\* All-digit values and their decimal value, -1 past i32::MAX.
DigitValues ==
    {[v |-> <<"5">>, n |-> 5], [v |-> <<"0">>, n |-> 0],
     [v |-> <<"0", "0", "7">>, n |-> 7], [v |-> <<"1", "2">>, n |-> 12],
     [v |-> <<"2", "1", "4", "7", "4", "8", "3", "6", "4", "7">>, n |-> 2147483647],
     [v |-> <<"0", "2", "1", "4", "7", "4", "8", "3", "6", "4", "7">>, n |-> 2147483647],
     [v |-> <<"2", "1", "4", "7", "4", "8", "3", "6", "4", "8">>, n |-> -1],
     [v |-> <<"4", "2", "9", "4", "9", "6", "7", "3", "0", "1">>, n |-> -1],
     [v |-> <<"9", "9", "9", "9", "9", "9", "9", "9", "9", "9", "9">>, n |-> -1]}

QuotedValues == {<<>>, <<"a">>, <<"a", "=", "b">>, <<"a", " ", "b">>, <<"a", "\"", "b">>, <<"\"">>, <<"5">>,
                 Disable, <<"-", "/">>}

BareValues == {<<"a">>, <<"n", "e", "w">>, <<"d", "i", "s", "a", "b", "l", "e", "d">>, <<"x", "1">>, <<"_">>, <<EAcute>>}

\* Bare values that hold a character outside \w: a path, a host name, an
\* address, an interface.
BarePunctValues == {<<"/", "u", "s", "r">>, <<"a", ".", "b">>, <<"a", "-", "b">>,
                    <<"1", ".", "2">>, <<":", ":", "1">>, <<"a", ":", "b">>}

DigitsThenWord == {<<"1", "2", "x">>, <<"0", "x", "1">>, <<"1", "_">>}

DigitsThenOther == {<<"1", ".", "5">>, <<"1", "-">>, <<"1", "\"">>}

Mismatches == {<<>>, <<"=">>, <<"=", "a">>, <<"a", " ", "b">>, <<" ", "a">>, <<"a", " ">>,
               <<"a", " ", "=", "1">>, <<"a", "=", "b", "-", "c">>,
               <<"a", "=", "/">>, <<"a", "=", "b", "=", "c">>,
               <<"a", "=", "\"", "b">>, <<"a", "=", "\"">>, <<"-">>,
               <<"a", "=", "\"", "\n", "\"">>}

\* Longest directive drawn character by character.
MaxDirective == 3

DirectiveChars == {"a", "1", "=", "\"", ".", "-", " ", "\n"}

RawDirectives ==
    {DirectiveInput("raw", <<>>, <<>>, t, NoResult) :
        t \in UNION {[1..k -> DirectiveChars] : k \in 0..MaxDirective}}

DirectiveInputs ==
    {FlagInput(n) : n \in DirectiveNames}
    \cup {DisableInput(n) : n \in DirectiveNames}
    \cup {DigitsInput(n, d.v, d.n) : n \in DirectiveNames, d \in DigitValues}
    \cup {QuotedInput(n, v) : n \in DirectiveNames, v \in QuotedValues}
    \cup {BareInput(n, v) : n \in DirectiveNames, v \in BareValues}
    \cup {EmptyInput(n) : n \in DirectiveNames}
    \cup {DigitsThenInput(n, v, Ok(StringParameter(n, v))) :
            n \in DirectiveNames, v \in DigitsThenWord}
    \cup {DigitsThenInput(n, v, Err("directive does not match regex")) :
            n \in DirectiveNames, v \in DigitsThenOther}
    \cup {DirectiveInput("other_digits", n, <<ArabicThree>>,
                         n \o <<"=", ArabicThree>>,
                         Ok(NumberParameter(n, -1))) : n \in DirectiveNames}
    \cup {DirectiveInput("bare_punct", n, v, n \o <<"=">> \o v,
                         Err("directive does not match regex")) :
            n \in DirectiveNames, v \in BarePunctValues}
    \cup {MismatchInput(t) : t \in Mismatches}
    \cup RawDirectives

\* Longest list drawn from ListItems.
MaxList == 2

ListItems ==
    {FlagInput(<<"a">>), DisableInput(<<"a">>),
     DigitsInput(<<"a">>, <<"5">>, 5), QuotedInput(<<"a">>, <<"a", " ", "b">>),
     EmptyInput(<<"a">>), FlagInput(<<"b">>), MismatchInput(<<"=">>), MismatchInput(<<"a", " ", "b">>),
     DigitsThenInput(<<"a">>, <<"1", ".", "5">>, Err("directive does not match regex"))}

\* The list of test_to_parameter_list.
TestDirectives ==
    <<DigitsInput(<<"d", "e", "v", "f", "s", "_", "r", "u", "l", "e", "s", "e", "t">>, <<"5">>, 5),
      FlagInput(<<"n", "o", "d", "y", "i", "n", "g">>),
      DigitsInput(<<"e", "n", "f", "o", "r", "c", "e", "_", "s", "t", "a", "t", "f", "s">>, <<"2">>, 2),
      QuotedInput(<<"e", "n", "v">>, <<>>),
      BareInput(<<"h", "o", "s", "t">>, <<"n", "e", "w">>),
      DisableInput(<<"i", "p", "4">>)>>

DirectiveLists ==
    UNION {[1..k -> ListItems] : k \in 0..MaxList} \cup {TestDirectives}

\* The Vec<String> a list of drawn directives stands for.
texts(list) == [i \in 1..Len(list) |-> list[i].text]

-----------------------------------------------------------------------------
(* src/conmand/src/jls/configuration.rs: the name-keyed Configuration *)

\* Parameters::name(): the name a Parameter carries.
Parameters_name(parameter) == parameter.name

\* HashMap::new(): a map is a function from the keys it holds.
HashMap_new == [k \in {} |-> NoNameNoValue]

insert_keeps_first(map, key, value) ==
    [k \in DOMAIN map \cup {key} |-> IF k \in DOMAIN map THEN map[k] ELSE value]

\* HashMap::insert: the value replaces the one stored under the key.
insert(map, key, value) ==
    [k \in DOMAIN map \cup {key} |-> IF k = key THEN value ELSE map[k]]

\* for parameter in data { directives.insert(parameter.name(), parameter) }
RECURSIVE insert_from(_, _, _)
insert_from(map, data, i) ==
    IF i > Len(data) THEN map
    ELSE insert_from(insert(map, Parameters_name(data[i]), data[i]), data,
                     i + 1)

Configuration_new_drops_sentinel(data) ==
    insert_from(HashMap_new, SelectSeq(data, LAMBDA p : p # NoNameNoValue), 1)

\* Configuration::new(data): the directives map of the Configuration.
Configuration_new(data) == insert_from(HashMap_new, data, 1)

\* What an indexing expression came to: a reference to a Parameter, or a
\* panic.
Indexed(key, panicked, value) ==
    [name |-> key, panicked |-> panicked, value |-> value]

NotIndexed == Indexed(<<>>, FALSE, NoNameNoValue)

index_or_sentinel(directives, key) ==
    IF key \in DOMAIN directives
    THEN Indexed(key, FALSE, directives[key])
    ELSE Indexed(key, FALSE, NoNameNoValue)

\* Index<&str>::index: self.directives.get(name).unwrap()
index(directives, key) ==
    IF key \in DOMAIN directives
    THEN Indexed(key, FALSE, directives[key])
    ELSE Indexed(key, TRUE, NoNameNoValue)

\* Names looked up: held by the drawn lists or by none of them.
LookupNames == {<<"a">>, <<"b">>, <<"z">>, <<"e", "n", "v">>, <<>>,
                Parameters_name(NoNameNoValue)}

-----------------------------------------------------------------------------
(* src/conmand/src/config_parser.rs: the flat line parser *)

\* char::is_whitespace
is_whitespace(c) == c \in AsciiSpaces

\* The text without its leading and trailing characters that lie in dropped.
TrimBy(text, dropped) ==
    LET keep == {i \in 1..Len(text) : text[i] \notin dropped}
    IN  IF keep = {} THEN <<>>
        ELSE SubSeq(text, CHOOSE i \in keep : \A j \in keep : i <= j,
                          CHOOSE i \in keep : \A j \in keep : j <= i)

\* str::trim
trim(text) ==
    TrimBy(text, {text[i] : i \in {j \in 1..Len(text) : is_whitespace(text[j])}})

\* str::trim_matches(ch)
trim_matches(text, ch) == TrimBy(text, {ch})

\* str::contains(ch)
contains(text, ch) == \E i \in 1..Len(text) : text[i] = ch

\* str::find(pat): the first position where pat starts, 0 for None.
find(text, pat) ==
    LET at == {i \in 1..(Len(text) - Len(pat) + 1) :
                  SubSeq(text, i, i + Len(pat) - 1) = pat}
    IN  IF at = {} THEN 0 ELSE CHOOSE i \in at : \A j \in at : i <= j

\* str::splitn(2, pat).collect()
splitn2(text, pat) ==
    LET i == find(text, pat)
    IN  IF i = 0 THEN <<text>>
        ELSE <<SubSeq(text, 1, i - 1), SubSeq(text, i + Len(pat), Len(text))>>

\* str::split(ch).collect()
RECURSIVE split(_, _)
split(text, ch) ==
    LET i == find(text, <<ch>>)
    IN  IF i = 0 THEN <<text>>
        ELSE <<SubSeq(text, 1, i - 1)>>
                 \o split(SubSeq(text, i + 1, Len(text)), ch)

\* enum ConfigValue, one record shape (Boolean is never built by the parser)
ConfigValue_String(s) == [variant |-> "String", string |-> s, array |-> <<>>]

ConfigValue_Array(a) == [variant |-> "Array", string |-> <<>>, array |-> a]

\* ConfigItem::new(name)
ConfigItem_new(item_name) ==
    [name |-> item_name, values |-> HashMap_new, directives |-> <<>>]

add_value_extends(item, key, value) ==
    LET elements(v) == IF v.variant = "Array" THEN v.array ELSE <<v.string>>
    IN  [item EXCEPT !.values =
            insert(@, key,
                   IF key \in DOMAIN @
                   THEN ConfigValue_Array(elements(@[key]) \o elements(value))
                   ELSE value)]

add_value(item, key, value) ==
    [item EXCEPT !.values = insert(@, key, value)]

add_directive(item, text) == [item EXCEPT !.directives = Append(@, text)]

\* Option<(String, String)>
Some(key, value) == [some |-> TRUE, key |-> key, value |-> value]

None == [some |-> FALSE, key |-> <<>>, value |-> <<>>]

\* parse_key_value(line): parts.len() is 2 whenever the line contains the
\* separator.
parse_key_value(text) ==
    IF find(text, <<"+", "=">>) # 0
    THEN LET parts == splitn2(text, <<"+", "=">>)
         IN  Some(trim(parts[1]), trim_matches(trim(parts[2]), ";"))
    ELSE IF contains(text, "=")
    THEN LET parts == splitn2(text, <<"=">>)
         IN  Some(trim(parts[1]), trim_matches(trim(parts[2]), ";"))
    ELSE None

NotEmpty(v) == v # <<>>

\* value.split(',').map(|v| v.trim().trim_matches('"')).filter(not empty)
array_values(value) ==
    LET pieces == split(value, ",")
    IN  SelectSeq([i \in 1..Len(pieces) |-> trim_matches(trim(pieces[i]), "\"")],
                  NotEmpty)

\* parse_config_line(line, config_item): the ConfigItem afterwards.
parse_config_line(text, item) ==
    IF ~contains(text, "=") /\ ~contains(text, "+")
    THEN add_directive(item, text)
    ELSE LET kv == parse_key_value(text)
         IN  IF kv.some
             THEN add_value(item, kv.key,
                            IF contains(kv.value, ",")
                            THEN ConfigValue_Array(array_values(kv.value))
                            ELSE ConfigValue_String(
                                     trim_matches(trim(kv.value), "\"")))
             ELSE item

-----------------------------------------------------------------------------
(* Lines given to the flat line parser *)

\* How a block line was built: its key and the elements written after the
\* operator.
FlatInput(kind, key, elements, text) ==
    [kind |-> kind, key |-> key, elements |-> elements, text |-> text]

NoFlatInput == FlatInput("none", <<>>, <<>>, <<>>)

\* Longest block line drawn character by character.
MaxFlat == 3

\* Most elements written after the operator.
MaxElements == 2

FlatChars == {"k", "a", "+", "=", ",", "\"", " ", ";"}

\* parse_content passes lines[i].trim(), not empty, not a comment, not "}".
RawFlatInputs ==
    {FlatInput("raw", <<>>, <<>>, t) :
        t \in {u \in UNION {[1..n -> FlatChars] : n \in 1..MaxFlat} :
                  trim(u) = u}}

\* An element as written and the string it stands for.
Elements == {[text |-> <<"\"", "a", "\"">>, value |-> <<"a">>],
             [text |-> <<"b">>, value |-> <<"b">>],
             [text |-> <<"\"", "a", " ", "b", "\"">>, value |-> <<"a", " ", "b">>]}

ElementLists == UNION {[1..n -> Elements] : n \in 1..MaxElements}

Written(es) == join([i \in 1..Len(es) |-> es[i].text], <<",", " ">>)

Values(es) == [i \in 1..Len(es) |-> es[i].value]

LineEnds == {<<>>, <<";">>, <<",", " ", ";">>}

\* key += e1, e2 ...
AppendInputs ==
    {FlatInput("append", <<"k">>, Values(es),
               <<"k", " ", "+", "=", " ">> \o Written(es) \o e) :
        es \in ElementLists, e \in LineEnds}

\* key = e1, e2 ... with at least one comma
ListInputs ==
    {FlatInput("list", <<"k">>, Values(es),
               <<"k", " ", "=", " ">> \o Written(es) \o e) :
        es \in ElementLists, e \in {<<",", " ", ";">>}}

FlatInputs == RawFlatInputs \cup AppendInputs \cup ListInputs

\* Most lines after the `name {` line.
MaxBlock == 3

\* A value as written after the operator and the ConfigValue it stands for.
Assigned == {[text |-> <<"a">>, value |-> ConfigValue_String(<<"a">>)],
             [text |-> <<"\"", "b", "\"">>, value |-> ConfigValue_String(<<"b">>)],
             [text |-> <<"a", ",", " ", "b">>,
              value |-> ConfigValue_Array(<<<<"a">>, <<"b">>>>)]}

BlockLine(kind, key, value, text) ==
    [kind |-> kind, key |-> key, value |-> value, text |-> text]

NoValue == ConfigValue_String(<<>>)

\* key = v;  and  key += v;  as they stand in a file, indented.
KeyLines ==
    {BlockLine("key_value", kv[1], kv[2].value,
               <<" ">> \o kv[1] \o <<" ">> \o op \o <<" ">> \o kv[2].text
                       \o <<";">>) :
        kv \in ({<<"k">>} \X Assigned)
                 \cup {<<<<"j">>, v>> : v \in {w \in Assigned : w.text = <<"a">>}},
        op \in {<<"=">>, <<"+", "=">>}}

\* A line with '+' and no '=', a directive, a comment, a blank line and the
\* line that closes the block.
OtherLines ==
    {BlockLine("plus", <<>>, NoValue, <<" ", "k", " ", "+", " ", "a", ";">>),
     BlockLine("directive", <<>>, NoValue, <<" ", "d", ";">>),
     BlockLine("comment", <<>>, NoValue, <<"#", " ", "k", " ", "=", " ", "a">>),
     BlockLine("blank", <<>>, NoValue, <<" ">>),
     BlockLine("close", <<>>, NoValue, <<"}">>)}

Blocks == UNION {[1..n -> KeyLines \cup OtherLines] : n \in 0..MaxBlock}

-----------------------------------------------------------------------------
(* src/conmand/src/jls/command.rs: list_jails *)

\* tokenize_jls_line(raw): the value inside the Ok it returns.
RECURSIVE tokenize_from(_, _, _)
tokenize_from(t, text, i) ==
    IF i > Len(text) THEN t
    ELSE tokenize_from(tokenize_char(t, text[i]), text, i + 1)

tokenize_jls_line(text) ==
    tokenize_finish(tokenize_from(tokenize_start, text, 1))

\* str::lines: the text split at '\n', a final empty piece dropped, a '\r'
\* before the '\n' dropped with it.
RECURSIVE lines(_)
lines(text) ==
    IF text = <<>> THEN <<>>
    ELSE LET i == find(text, <<"\n">>)
             piece == IF i = 0 THEN text ELSE SubSeq(text, 1, i - 1)
             rest == IF i = 0 THEN <<>> ELSE SubSeq(text, i + 1, Len(text))
             ends_cr == i > 0 /\ piece # <<>> /\ piece[Len(piece)] = "\r"
         IN  <<IF ends_cr THEN SubSeq(piece, 1, Len(piece) - 1) ELSE piece>>
                \o lines(rest)

\* The closure mapped over the lines: tokenize, classify, aggregate.
jail_of_line(text) ==
    Configuration_new(convert_to_parameter_list(tokenize_jls_line(text)))

\* list_jails: lines.iter().map(..).collect() over every line of the output.
list_jails(text) ==
    LET ls == lines(text)
    IN  [i \in 1..Len(ls) |-> jail_of_line(ls[i])]

\* Most lines in the output of the jls process.
MaxOutput == 3

\* Lines of `jls -nq` output: parameters of a jail, one jail per line.
OutputLines == {<<"a">>, <<"a", "=", "1">>, <<"b", " ", "a", "=", "1">>,
                <<"e", "=", "\"", "\"", " ", "b">>}

\* What ends the last line.
OutputEnds == {<<>>, <<"\n">>}

Outputs ==
    {join(ls, <<"\n">>) \o e :
        ls \in UNION {[1..k -> OutputLines] : k \in 0..MaxOutput},
        e \in OutputEnds}

-----------------------------------------------------------------------------
(* History variables *)

NoIntr == [top |-> "None", name |-> <<>>, directives |-> <<>>,
           phase |-> "none", next |-> "None"]

\* A '#' read outside a comment records the state it interrupts and the
\* text accumulated so far; the newline that ends the comment and the
\* character after it move the record on.
intr_after(cur, val) ==
    IF val = "#" /\ cur # "Comment"
    THEN [top |-> cur, name |-> config.name, directives |-> config.directives,
          phase |-> "comment", next |-> "None"]
    ELSE IF intr.phase = "comment"
         THEN IF val = "\n" THEN [intr EXCEPT !.phase = "resumed"] ELSE intr
    ELSE IF intr.phase = "resumed"
         THEN [intr EXCEPT !.phase = "extended", !.next = val]
    ELSE NoIntr

-----------------------------------------------------------------------------
(* The tokenizer as a state machine: one step per character *)

TableIdle == from_state = "None" /\ token = "None" /\ to_state = "None"

\* The flat line parser is not running.
FlatIdle ==
    /\ block_line = NoFlatInput /\ config_item = ConfigItem_new(<<>>)
    /\ block_lines = <<>> /\ block_i = 0

\* list_jails is not running.
ListIdle == stdout = <<>> /\ jails = <<>>

\* No jls function is running.
JlsIdle ==
    /\ raw = <<>>
    /\ line = NoLine
    /\ line_pos = 0
    /\ result = <<>>
    /\ in_quotes = FALSE
    /\ current = <<>>
    /\ flushes = <<>>
    /\ directive = NoDirective
    /\ parsed = NoResult
    /\ raw_directives = <<>>
    /\ parameters = <<>>
    /\ jail = HashMap_new
    /\ indexed = NotIndexed

\* A parser is built (new or default) and parse_content is called.
Init ==
    \E c \in {"new", "default"} :
    \E s \in (IF c = "new" THEN Inputs ELSE AgainInputs) :
        /\ ctor = c
        /\ state_stack = (IF c = "new" THEN new ELSE default)
        /\ shape = s
        /\ content = s.text
        /\ config = Configuration_default
        /\ pos = 0
        /\ pc = "loop"
        /\ fresh = TRUE
        /\ halted = 0
        /\ entered = 0
        /\ terminated = 0
        /\ intr = NoIntr
        /\ TableIdle
        /\ JlsIdle
        /\ parsers = <<>>
        /\ FlatIdle
        /\ ListIdle

\* One iteration of `for val in content.chars()` that does not break.
loop_step ==
    /\ pc = "loop"
    /\ pos < Len(content)
    /\ current_state(state_stack) # "Invalid"
    /\ LET val == content[pos + 1]
           cur == current_state(state_stack)
           p == loop_body([state_stack |-> state_stack, name |-> config.name,
                           directives |-> config.directives,
                           panicked |-> FALSE], val)
       IN  /\ state_stack' = p.state_stack
           /\ config' = [name |-> p.name, directives |-> p.directives]
           /\ pc' = IF p.panicked THEN "panicked" ELSE "loop"
           /\ pos' = pos + 1
           /\ halted' = IF halted = 0 /\ next_state(cur, val) = "Invalid"
                        THEN pos + 1 ELSE halted
           /\ entered' = IF cur \notin {"InDirective", "Comment"}
                            /\ last(p.state_stack) = "InDirective"
                         THEN entered + 1 ELSE entered
           /\ terminated' = IF cur = "InDirective" /\ val = ";"
                            THEN terminated + 1 ELSE terminated
           /\ intr' = intr_after(cur, val)
    /\ UNCHANGED <<content, ctor, fresh, shape, from_state, token, to_state>>
    /\ UNCHANGED <<jls_vars, parsers, flat_vars, list_vars>>

\* The iteration that finds Invalid as the current state: break, Ok(config).
loop_break ==
    /\ pc = "loop"
    /\ pos < Len(content)
    /\ current_state(state_stack) = "Invalid"
    /\ pc' = "done"
    /\ UNCHANGED <<state_stack, config, content, pos, ctor, fresh, shape,
                   halted, entered, terminated, intr, from_state, token,
                   to_state>>
    /\ UNCHANGED <<jls_vars, parsers, flat_vars, list_vars>>

loop_end_stuck ==
    /\ pc = "loop"
    /\ pos = Len(content)
    /\ UNCHANGED vars

\* The loop has taken every character: Ok(config).
loop_end ==
    /\ pc = "loop"
    /\ pos = Len(content)
    /\ pc' = "done"
    /\ UNCHANGED <<state_stack, config, content, pos, ctor, fresh, shape,
                   halted, entered, terminated, intr, from_state, token,
                   to_state>>
    /\ UNCHANGED <<jls_vars, parsers, flat_vars, list_vars>>

\* The call is over: the Configuration has gone to the caller and the locals
\* of the call are dropped; the parser keeps its state stack.
call_over ==
    /\ pc = "done"
    /\ pc' = "idle"
    /\ shape' = Input("raw", <<>>, <<>>, <<>>)
    /\ content' = <<>>
    /\ config' = Configuration_default
    /\ pos' = 0
    /\ fresh' = FALSE
    /\ halted' = 0
    /\ entered' = 0
    /\ terminated' = 0
    /\ intr' = NoIntr
    /\ UNCHANGED <<state_stack, ctor, from_state, token, to_state>>
    /\ UNCHANGED <<jls_vars, parsers, flat_vars, list_vars>>

\* parse_content is called again on the same parser: a new Configuration,
\* the state stack as the last call left it.
parse_again ==
    /\ pc = "idle"
    /\ \E s \in AgainInputs :
        /\ shape' = s
        /\ content' = s.text
    /\ config' = Configuration_default
    /\ pos' = 0
    /\ pc' = "loop"
    /\ fresh' = FALSE
    /\ halted' = 0
    /\ entered' = 0
    /\ terminated' = 0
    /\ intr' = NoIntr
    /\ UNCHANGED <<state_stack, ctor, from_state, token, to_state>>
    /\ UNCHANGED <<jls_vars, parsers, flat_vars, list_vars>>

Next == loop_step \/ loop_break \/ loop_end \/ call_over \/ parse_again

Spec == Init /\ [][Next]_vars

\* The for loop is one thread of control: an iteration, the break or the
\* return that can be taken is taken.  Whether the caller calls again is up
\* to the caller.
SpecLive == Spec /\ WF_vars(loop_step \/ loop_break \/ loop_end)

-----------------------------------------------------------------------------
(* The state table on its own: next_state applied to every pair *)

TableChars == Chars \cup {"b", "\t"}

InitTable ==
    /\ from_state \in ParserState
    /\ token \in TableChars
    /\ to_state = "None"
    /\ pc = "table"
    /\ ctor = "new"
    /\ state_stack = new
    /\ shape = Input("raw", <<>>, <<>>, <<>>)
    /\ content = <<>>
    /\ config = Configuration_default
    /\ pos = 0
    /\ fresh = TRUE
    /\ halted = 0
    /\ entered = 0
    /\ terminated = 0
    /\ intr = NoIntr
    /\ JlsIdle
    /\ parsers = <<>>
    /\ FlatIdle
    /\ ListIdle

apply_next_state ==
    /\ pc = "table"
    /\ to_state = "None"
    /\ to_state' = next_state(from_state, token)
    /\ UNCHANGED <<state_stack, config, content, pos, pc, ctor, fresh, shape,
                   halted, entered, terminated, intr, from_state, token>>
    /\ UNCHANGED <<jls_vars, parsers, flat_vars, list_vars>>

NextTable == apply_next_state

SpecTable == InitTable /\ [][NextTable]_vars

-----------------------------------------------------------------------------
(* The jls functions: each is applied to an input drawn in the initial state *)

ParserIdle ==
    /\ ctor = "new"
    /\ state_stack = new
    /\ shape = Input("raw", <<>>, <<>>, <<>>)
    /\ content = <<>>
    /\ config = Configuration_default
    /\ pos = 0
    /\ fresh = TRUE
    /\ halted = 0
    /\ entered = 0
    /\ terminated = 0
    /\ intr = NoIntr
    /\ TableIdle

\* tokenize_jls_line is entered with a line, directive_to_paramter with a
\* directive, or convert_to_parameter_list with a list of directives.
InitJls ==
    /\ ParserIdle
    /\ parsers = <<>>
    /\ FlatIdle
    /\ ListIdle
    /\ \/ /\ pc = "tokenize"
          /\ line \in LineInputs
          /\ directive = NoDirective
          /\ raw_directives = <<>>
       \/ /\ pc = "classify"
          /\ line = NoLine
          /\ directive \in DirectiveInputs
          /\ raw_directives = <<>>
       \/ /\ pc = "convert"
          /\ line = NoLine
          /\ directive = NoDirective
          /\ raw_directives \in DirectiveLists
    /\ raw = line.text
    /\ line_pos = 0
    /\ result = tokenize_start.result
    /\ in_quotes = tokenize_start.in_quotes
    /\ current = tokenize_start.current
    /\ flushes = <<>>
    /\ parsed = NoResult
    /\ parameters = <<>>
    /\ jail = HashMap_new
    /\ indexed = NotIndexed

\* One iteration of `for char in raw.chars()`.
tokenize_step ==
    /\ pc = "tokenize"
    /\ line_pos < Len(raw)
    /\ LET t == tokenize_char(Tokenizer(result, in_quotes, current),
                              raw[line_pos + 1])
       IN  /\ result' = t.result
           /\ in_quotes' = t.in_quotes
           /\ current' = t.current
           /\ flushes' = IF t.result # result
                         THEN Append(flushes, line_pos + 1) ELSE flushes
    /\ line_pos' = line_pos + 1
    /\ UNCHANGED <<list_vars, flat_vars, parsers, parser_vars, pc, raw, line, directive, parsed,
                   raw_directives, parameters, jail, indexed>>

\* The loop has taken every character: the last push and Ok(result).
tokenize_return ==
    /\ pc = "tokenize"
    /\ line_pos = Len(raw)
    /\ LET r == tokenize_finish(Tokenizer(result, in_quotes, current))
       IN  /\ result' = r
           /\ flushes' = IF r # result
                         THEN Append(flushes, Len(raw) + 1) ELSE flushes
    /\ pc' = "tokenized"
    /\ UNCHANGED <<list_vars, flat_vars, parsers, parser_vars, raw, line, line_pos, in_quotes, current,
                   directive, parsed, raw_directives, parameters, jail,
                   indexed>>

apply_directive_to_paramter ==
    /\ pc = "classify"
    /\ parsed' = directive_to_paramter(directive.text)
    /\ pc' = "classified"
    /\ UNCHANGED <<list_vars, flat_vars, parsers, parser_vars, raw, line, line_pos, result, in_quotes,
                   current, flushes, directive, raw_directives, parameters,
                   jail, indexed>>

apply_convert_to_parameter_list ==
    /\ pc = "convert"
    /\ parameters' = convert_to_parameter_list(texts(raw_directives))
    /\ pc' = "converted"
    /\ UNCHANGED <<list_vars, flat_vars, parsers, parser_vars, raw, line, line_pos, result, in_quotes,
                   current, flushes, directive, parsed, raw_directives, jail,
                   indexed>>

\* Configuration::new on the converted list (as in test_new_jail).
apply_Configuration_new ==
    /\ pc = "converted"
    /\ jail' = Configuration_new(parameters)
    /\ pc' = "built"
    /\ UNCHANGED <<list_vars, flat_vars, parsers, parser_vars, raw, line, line_pos, result, in_quotes,
                   current, flushes, directive, parsed, raw_directives,
                   parameters, indexed>>

\* jail[name] for some name; index takes &self.
apply_index ==
    /\ pc = "built"
    /\ \E key \in LookupNames : indexed' = index(jail, key)
    /\ pc' = "indexed"
    /\ UNCHANGED <<list_vars, flat_vars, parsers, parser_vars, raw, line, line_pos, result, in_quotes,
                   current, flushes, directive, parsed, raw_directives,
                   parameters, jail>>

NextJls ==
    \/ tokenize_step
    \/ tokenize_return
    \/ apply_directive_to_paramter
    \/ apply_convert_to_parameter_list
    \/ apply_Configuration_new
    \/ apply_index

SpecJls == InitJls /\ [][NextJls]_vars

-----------------------------------------------------------------------------
(* Two ConfigParser instances, each running one parse_content call, their   *)
(* per-character steps interleaved                                          *)

\* Longest text of an instance drawn character by character.
MaxPair == 2

PairChars == {"a", "{", ";", "}"}

PairTexts ==
    UNION {[1..k -> PairChars] : k \in 0..MaxPair}
    \cup {<<"a", "{", "a", ";", "}">>, <<"a", " ", "{", "#", "\n", "a", ";", " ", "}">>}

\* An instance and its running call: the parser value, the argument, the
\* characters taken, and whether the call has returned.
Instance(p, text, taken, at) ==
    [p |-> p, content |-> text, pos |-> taken, pc |-> at]

self_state_stack_of_first(ps, i) == ps[1].p.state_stack

\* self.state_stack of instance i
self_state_stack(ps, i) == ps[i].p.state_stack

InitPair ==
    /\ ParserIdle
    /\ JlsIdle
    /\ FlatIdle
    /\ ListIdle
    /\ pc = "pair"
    /\ \E t1 \in PairTexts, t2 \in PairTexts :
        parsers = <<Instance(parse_content(new, <<>>), t1, 0, "loop"),
                    Instance(parse_content(new, <<>>), t2, 0, "loop")>>

\* One iteration of the for loop of instance i: the break on Invalid, or the
\* loop body on the instance's own stack and Configuration.
instance_step(i) ==
    /\ pc = "pair"
    /\ parsers[i].pc = "loop"
    /\ parsers[i].pos < Len(parsers[i].content)
    /\ LET stack == self_state_stack(parsers, i)
           me == [parsers[i].p EXCEPT !.state_stack = stack]
           val == parsers[i].content[parsers[i].pos + 1]
           after == loop_body(me, val)
       IN  parsers' = [parsers EXCEPT ![i] =
               IF current_state(stack) = "Invalid"
               THEN [@ EXCEPT !.pc = "done"]
               ELSE Instance(after, @.content, @.pos + 1,
                             IF after.panicked THEN "panicked" ELSE "loop")]
    /\ UNCHANGED <<parser_vars, pc, jls_vars, flat_vars, list_vars>>

\* Instance i has taken every character: Ok(config).
instance_return(i) ==
    /\ pc = "pair"
    /\ parsers[i].pc = "loop"
    /\ parsers[i].pos = Len(parsers[i].content)
    /\ parsers' = [parsers EXCEPT ![i].pc = "done"]
    /\ UNCHANGED <<parser_vars, pc, jls_vars, flat_vars, list_vars>>

NextPair ==
    \/ \E i \in {1, 2} : instance_step(i)
    \/ \E i \in {1, 2} : instance_return(i)

SpecPair == InitPair /\ [][NextPair]_vars

-----------------------------------------------------------------------------
(* The flat line parser applied to one block line of a container *)

InitFlat ==
    /\ ParserIdle
    /\ JlsIdle
    /\ parsers = <<>>
    /\ ListIdle
    /\ pc = "flat"
    /\ block_line \in FlatInputs
    /\ config_item = ConfigItem_new(<<"c">>)
    /\ block_lines = <<>>
    /\ block_i = 0

apply_parse_config_line ==
    /\ pc = "flat"
    /\ config_item' = parse_config_line(block_line.text, config_item)
    /\ pc' = "flat_parsed"
    /\ UNCHANGED <<parser_vars, jls_vars, parsers, block_line, list_vars,
                   block_lines, block_i>>

NextFlat == apply_parse_config_line

SpecFlat == InitFlat /\ [][NextFlat]_vars

-----------------------------------------------------------------------------
(* list_jails applied to an output of the jls process *)

\* The process has been waited for; its output is valid UTF-8.
InitList ==
    /\ ParserIdle
    /\ JlsIdle
    /\ FlatIdle
    /\ parsers = <<>>
    /\ pc = "list"
    /\ stdout \in Outputs
    /\ jails = <<>>

apply_list_jails ==
    /\ pc = "list"
    /\ jails' = list_jails(stdout)
    /\ pc' = "listed"
    /\ UNCHANGED <<parser_vars, jls_vars, parsers, flat_vars, stdout>>

NextList == apply_list_jails

SpecList == InitList /\ [][NextList]_vars

-----------------------------------------------------------------------------
(* The flat line parser over the lines of one block *)

\* parse_content has read the `name {` line and built the ConfigItem.
InitBlock ==
    /\ ParserIdle
    /\ JlsIdle
    /\ ListIdle
    /\ parsers = <<>>
    /\ pc = "block"
    /\ block_line = NoFlatInput
    /\ config_item = ConfigItem_new(<<"c">>)
    /\ block_lines \in Blocks
    /\ block_i = 0

\* One iteration of the inner while loop on a line other than "}": the
\* line is parsed unless it is empty or a comment.
block_step ==
    /\ pc = "block"
    /\ block_i < Len(block_lines)
    /\ LET text == trim(block_lines[block_i + 1].text)
       IN  /\ text # <<"}">>
           /\ config_item' = IF text # <<>> /\ text[1] # "#"
                             THEN parse_config_line(text, config_item)
                             ELSE config_item
    /\ block_i' = block_i + 1
    /\ UNCHANGED <<parser_vars, pc, jls_vars, parsers, list_vars, block_line,
                   block_lines>>

\* The inner while loop ends: at the line "}" (i += 1; break) or after the
\* last line.
block_end ==
    /\ pc = "block"
    /\ \/ /\ block_i < Len(block_lines)
          /\ trim(block_lines[block_i + 1].text) = <<"}">>
          /\ block_i' = block_i + 1
       \/ /\ block_i = Len(block_lines)
          /\ block_i' = block_i
    /\ pc' = "block_done"
    /\ UNCHANGED <<parser_vars, jls_vars, parsers, list_vars, block_line,
                   config_item, block_lines>>

NextBlock == block_step \/ block_end

SpecBlock == InitBlock /\ [][NextBlock]_vars

-----------------------------------------------------------------------------
(* Properties *)

Parsing == pc \in {"loop", "done", "panicked"}

IsPrefix(s, t) == Len(s) <= Len(t) /\ SubSeq(t, 1, Len(s)) = s

\* Every old directive is still there, in place, possibly longer.
DirectivesExtend(old, now) ==
    /\ Len(old) <= Len(now)
    /\ \A i \in 1..Len(old) : IsPrefix(old[i], now[i])

\* C1: Invalid is a sink. Once a character has been read for which the state
\* table returns Invalid from the current state, no later character changes
\* the name, the directive list or the state stack: at every later point
\* they are what parsing the text before that character gives.
C1_InvalidIsSink ==
    (Parsing /\ ctor = "new" /\ fresh /\ halted > 0) =>
        LET q == parse_content(new, SubSeq(content, 1, halted - 1))
        IN  /\ state_stack = q.state_stack
            /\ config.name = q.name
            /\ config.directives = q.directives

\* C2: on a parser built by new, parse_content never panics and runs to the
\* end of the text before it returns Ok.
C2_NeverPanics ==
    (Parsing /\ ctor = "new") =>
        /\ pc # "panicked"
        /\ pc = "done" => pos = Len(content)

\* C2 witness: a name was ended by whitespace (end_name_transition ran) and
\* the call returned.
C2_NameEnded ==
    /\ ctor = "new" /\ fresh /\ pc = "done"
    /\ Len(content) >= 2 /\ content[1] = "a" /\ content[2] = " "
    /\ config.name = <<"a">>

\* C3: on a parser built by new, after every character the state stack is
\* non-empty and its bottom element is Starting.
C3_StackBottomIsStarting ==
    (Parsing /\ ctor = "new") =>
        /\ state_stack # <<>>
        /\ state_stack[1] = "Starting"

\* C3 witness: the pop loop of end_block_transition has just run.
C3_BlockClosed ==
    /\ ctor = "new" /\ pc = "loop" /\ pos > 0
    /\ content[pos] = "}"
    /\ last(state_stack) = "EndBlock"

\* C4: the state stack is fresh for every call. A call on a parser that has
\* completed earlier calls returns what a newly built parser returns for the
\* same text.
C4_StackFreshPerCall ==
    (pc = "done" /\ ctor = "new") =>
        LET q == parse_content(new, content)
        IN  /\ config.name = q.name
            /\ config.directives = q.directives

\* C5: a directive P '#' C '\n' S ';' inside a block yields the single
\* directive P S: the '#', the comment text and its newline are left out.
C5_SplitDirectiveJoined ==
    (pc = "done" /\ ctor = "new" /\ fresh /\ shape.kind = "split_directive") =>
        config.directives = shape.dirs

\* C5 witness: "a " and "a=1" around a comment, after an earlier directive.
C5_SplitDirectiveParsed ==
    /\ pc = "done" /\ ctor = "new" /\ fresh /\ shape.kind = "split_directive"
    /\ Len(config.directives) = 2
    /\ config.directives[2] = <<"a", " ", "a", "=", "1">>

\* C6 as claimed: whatever state S is on top when '#' is read (Name
\* included), after the newline S is on top again with the name and the
\* directives as they were, and the next character extends them, never
\* replaces them.
C6_CommentResumesEveryState ==
    /\ intr.phase = "resumed" =>
        /\ last(state_stack) = intr.top
        /\ config.name = intr.name
        /\ config.directives = intr.directives
    /\ intr.phase = "extended" =>
        /\ IsPrefix(intr.name, config.name)
        /\ DirectivesExtend(intr.directives, config.directives)

\* C6 amended: from '#' to the newline the name and the directives do not
\* change. After the newline the interrupted state is on top again, except
\* that a comment ends a name: for Name, Starting is on top. The character
\* after the comment extends an interrupted directive; an alphanumeric
\* character after a comment that interrupted Name or Starting starts a new
\* name in place of the old one.
C6_CommentResumes ==
    /\ intr.phase \in {"comment", "resumed"} =>
        /\ config.name = intr.name
        /\ config.directives = intr.directives
    /\ intr.phase = "resumed" =>
        last(state_stack) = (IF intr.top = "Name" THEN "Starting" ELSE intr.top)
    /\ intr.phase = "extended" =>
        /\ DirectivesExtend(intr.directives, config.directives)
        /\ (intr.top = "InDirective" /\ intr.directives # <<>>) =>
              config.directives =
                 (IF intr.next = ";" THEN intr.directives
                  ELSE [intr.directives EXCEPT
                          ![Len(intr.directives)] = Append(@, intr.next)])
        /\ config.name =
              (IF intr.top \in {"Name", "Starting"}
                  /\ is_ascii_alphanumeric(intr.next)
               THEN <<intr.next>> ELSE intr.name)

\* C6 witness: a directive interrupted by a comment has been extended by
\* the character after the comment.
C6_DirectiveResumed ==
    /\ intr.phase = "extended" /\ intr.top = "InDirective" /\ intr.next = "a"
    /\ intr.directives = << <<"a", "1">> >>
    /\ config.directives = << <<"a", "1", "a">> >>

\* C7 as claimed: the directive list has one entry per directive-terminating
\* ';' read so far.
C7_DirectiveAddedOnLeaving ==
    Parsing => Len(config.directives) = terminated

\* C7 amended: a directive is added when the tokenizer enters InDirective,
\* on the directive's first character: the directive list has one entry per
\* entry into InDirective so far, so a text that ends inside an unterminated
\* directive returns an entry holding the part read.
C7_DirectiveAddedOnEntering ==
    Parsing => Len(config.directives) = entered

\* C7 witness: the call returned inside an unterminated directive.
C7_UnterminatedDirective ==
    /\ pc = "done" /\ ctor = "new" /\ fresh
    /\ last(state_stack) = "InDirective"
    /\ terminated = 0
    /\ config.directives = << <<"a", "1">> >>

\* C8: a non-empty ASCII-alphanumeric name X followed by an empty block
\* ("X { }", "X{}", "X {\n}") yields name X and no directives.
C8_EmptyBlock ==
    (pc = "done" /\ ctor = "new" /\ fresh /\ shape.kind = "empty_block") =>
        /\ config.name = shape.name
        /\ config.directives = <<>>

\* C8 witness: "a1 { }" has been parsed.
C8_EmptyBlockParsed ==
    /\ pc = "done" /\ ctor = "new" /\ fresh /\ shape.kind = "empty_block"
    /\ config.name = <<"a", "1">>
    /\ last(state_stack) = "EndBlock"

\* C9: well-formed text name { d1; ... dn; } yields the name and exactly the
\* n directives in source order, each without leading whitespace and
\* without its ';'.
C9_WellFormed ==
    (pc = "done" /\ ctor = "new" /\ fresh /\ shape.kind = "well_formed") =>
        /\ config.name = shape.name
        /\ config.directives = shape.dirs

\* C9 witness: two different directives separated by whole-line comments.
C9_TwoDirectivesParsed ==
    /\ pc = "done" /\ ctor = "new" /\ fresh /\ shape.kind = "well_formed"
    /\ config.name = <<"1", "a">>
    /\ Len(config.directives) = 2
    /\ config.directives[1] = <<"a", "=", "1", " ", "}">>
    /\ config.directives[2] = <<"a">>
    /\ "#" \in {content[i] : i \in 1..Len(content)}

\* The State Table, row by row. A row <<from, class, to>>; "newline" is
\* also whitespace; a pair with no row goes to the default of its state.
TableRows ==
    {<<"Starting", "whitespace", "Starting">>, <<"Starting", "letter", "Name">>,
     <<"Starting", "digit", "Name">>, <<"Starting", "{", "StartBlock">>,
     <<"Starting", "#", "Comment">>,
     <<"Name", "letter", "Name">>, <<"Name", "digit", "Name">>,
     <<"Name", "whitespace", "Starting">>, <<"Name", "{", "StartBlock">>,
     <<"Name", "#", "Comment">>,
     <<"StartBlock", "whitespace", "Seeking">>,
     <<"StartBlock", "letter", "InDirective">>,
     <<"StartBlock", "#", "Comment">>, <<"StartBlock", "}", "EndBlock">>,
     <<"EndBlock", "whitespace", "EndBlock">>, <<"EndBlock", "#", "Comment">>,
     <<"Seeking", "whitespace", "Seeking">>, <<"Seeking", "#", "Comment">>,
     <<"Seeking", "letter", "InDirective">>,
     <<"Seeking", "digit", "InDirective">>, <<"Seeking", "}", "EndBlock">>,
     <<"Comment", "newline", "Seeking">>,
     <<"InDirective", ";", "Seeking">>, <<"InDirective", "#", "Comment">>}

TableDefault(state) ==
    IF state \in {"Comment", "InDirective"} THEN state ELSE "Invalid"

InputClass(c) ==
    IF c = "\n" THEN "newline"
    ELSE IF c \in {" ", "\t", "\f", "\r"} THEN "whitespace"
    ELSE IF c \in {"a", "b"} THEN "letter"
    ELSE IF c \in {"1"} THEN "digit"
    ELSE IF c \in {"{", "}", "#", ";"} THEN c
    ELSE "other"

TableSuccessor(state, class) ==
    LET hit == {r \in TableRows :
                  /\ r[1] = state
                  /\ \/ r[2] = class
                     \/ r[2] = "whitespace" /\ class = "newline"
                        /\ state # "Comment"}
    IN  IF hit = {} THEN TableDefault(state) ELSE (CHOOSE r \in hit : TRUE)[3]

C11_ClosedBlockIsFinal ==
    (Parsing /\ ctor = "new" /\ fresh) =>
        \A i \in 1..pos :
            LET before == parse_content(new, SubSeq(content, 1, i - 1))
                closed == parse_content(new, SubSeq(content, 1, i))
            IN  (/\ content[i] = "}"
                 /\ ~before.panicked
                 /\ current_state(before.state_stack)
                        \in {"StartBlock", "Seeking"})
                => /\ last(state_stack) = "EndBlock"
                   /\ config.name = closed.name
                   /\ config.directives = closed.directives

-----------------------------------------------------------------------------
(* Properties of tokenize_jls_line *)

IsSuffix(s, t) ==
    Len(s) <= Len(t) /\ SubSeq(t, Len(t) - Len(s) + 1, Len(t)) = s

\* C12: tokenize_jls_line is quote-aware: while the characters taken so far
\* leave a '"' open, everything from that '"' on, spaces included, is in the
\* current token, so a value such as env="a b" is not split at the space
\* inside the quotes.
C12_QuotedSpanInOneToken ==
    (pc = "tokenize" /\ InsideQuotes(raw, line_pos)) =>
        IsSuffix(SubSeq(raw, OpenQuote(raw, line_pos), line_pos), current)

\* C13: tokenize_jls_line never emits an empty token, and a token is pushed
\* on the result only at a space outside quotes or at the end of the input.
C13_NoEmptyTokenFlushedOutsideQuotes ==
    pc \in {"tokenize", "tokenized"} =>
        /\ \A i \in 1..Len(result) : result[i] # <<>>
        /\ \A k \in 1..Len(flushes) :
            \/ flushes[k] = Len(raw) + 1
            \/ /\ raw[flushes[k]] = " "
               /\ ~InsideQuotes(raw, flushes[k] - 1)

NotSpace(c) == c # " "

\* C14: a line of space-free tokens separated by one or more spaces is
\* returned as exactly those tokens, in order and unchanged (quotes kept);
\* the result concatenated is the line without its spaces.
C14_SpacedTokensReturned ==
    pc = "tokenized" =>
        /\ line.kind = "spaced" => result = line.tokens
        /\ join(result, <<>>) = SelectSeq(raw, NotSpace)

C14_TestLineTokenized ==
    /\ pc = "tokenized"
    /\ line = TestLine
    /\ Len(result) = 6
    /\ result[4] = <<"e", "n", "v", "=", "\"", "\"">>

-----------------------------------------------------------------------------
(* Properties of the directive classifier *)

\* What a drawn directive is at its position in a converted list.
Listed(d) == IF d.expect.ok THEN d.expect.param ELSE NoNameNoValue

Has(text, c) == \E i \in 1..Len(text) : text[i] = c

\* C15: convert_to_parameter_list returns a list of the same length whose
\* i-th Parameter is the classification of the i-th directive, the sentinel
\* StringParameter("NO NAME", "NO VALUE") for a directive that matches no
\* grammar form.
C15_OneParameterPerDirective ==
    pc = "converted" =>
        /\ Len(parameters) = Len(raw_directives)
        /\ \A i \in 1..Len(raw_directives) :
            parameters[i] = Listed(raw_directives[i])

C15_SentinelThenParameter ==
    /\ pc = "converted"
    /\ Len(raw_directives) = 2
    /\ raw_directives[1].kind = "mismatch"
    /\ raw_directives[2].kind = "digits"
    /\ parameters[1] = NoNameNoValue
    /\ parameters[2].variant = "NumberParameter"

\* C16: directive_to_paramter returns a Parameter, never an error value, for
\* every input string, including strings that match no grammar form.
C16_NeverAnError ==
    pc = "classified" => parsed.ok

\* C16 (amended): directive_to_paramter returns Ok with a Parameter named by
\* a non-empty prefix of the directive when the directive matches a grammar
\* form, never the sentinel, and Err("directive does not match regex") when
\* it matches none.
C16_ErrOnMismatch ==
    pc = "classified" =>
        /\ directive.kind # "raw" => parsed.ok = directive.expect.ok
        /\ parsed.ok =>
            /\ parsed.param # NoNameNoValue
            /\ parsed.param.name # <<>>
            /\ IsPrefix(parsed.param.name, directive.text)
        /\ ~parsed.ok => parsed.err = "directive does not match regex"

C16_MismatchIsErr ==
    /\ pc = "classified"
    /\ directive.kind = "mismatch"
    /\ directive.text = <<"a", "=", "b", "-", "c">>
    /\ ~parsed.ok

\* C17: the value forms are tried in the order disable, all digits, quoted,
\* bare: name=disable is BooleanParameter(name, false), an all-digit value a
\* NumberParameter, a quoted value a StringParameter without the quotes (also
\* "disable" and "5" in quotes), a bare value StringParameter(name, V), and a
\* directive without '=' BooleanParameter(name, true).
C17_ValueFormPriority ==
    pc = "classified" =>
        /\ directive.kind = "disable" =>
            parsed = Ok(BooleanParameter(directive.name, FALSE))
        /\ directive.kind = "digits" =>
            /\ parsed.ok
            /\ parsed.param.variant = "NumberParameter"
            /\ parsed.param.name = directive.name
        /\ directive.kind = "quoted" =>
            parsed = Ok(StringParameter(directive.name, directive.value))
        /\ directive.kind = "bare" =>
            parsed = Ok(StringParameter(directive.name, directive.value))
        /\ directive.kind = "flag" =>
            parsed = Ok(BooleanParameter(directive.name, TRUE))

C17_QuotedDisableIsString ==
    /\ pc = "classified"
    /\ directive.kind = "quoted"
    /\ directive.value = Disable
    /\ parsed.param.variant = "StringParameter"
    /\ parsed.param.string = Disable

\* C18: a value that starts with digits but is not all digits (count=12x)
\* yields NumberParameter(name, -1).
C18_DigitsThenIsMinusOne ==
    (pc = "classified" /\ directive.kind = "digits_then") =>
        parsed = Ok(NumberParameter(directive.name, -1))

\* C18 (amended): a value that starts with digits but is not all digits is
\* not a number: made of word characters only it yields
\* StringParameter(name, V); holding any other character it matches no form
\* and directive_to_paramter returns Err.
C18_DigitsThenIsString ==
    (pc = "classified" /\ directive.kind = "digits_then") =>
        IF All(directive.value, is_word)
        THEN parsed = Ok(StringParameter(directive.name, directive.value))
        ELSE ~parsed.ok

C18_TwelveXIsString ==
    /\ pc = "classified"
    /\ directive.kind = "digits_then"
    /\ directive.value = <<"1", "2", "x">>
    /\ parsed.param.variant = "StringParameter"
    /\ parsed.param.string = <<"1", "2", "x">>

\* C19: an all-digit value yields NumberParameter(name, n), n the decimal
\* value (leading zeros ignored) when it is at most 2147483647, and
\* NumberParameter(name, -1) when it is larger; no other variant, no error.
C19_NumberWithinI32 ==
    (pc = "classified" /\ directive.kind = "digits") =>
        parsed = directive.expect

C19_OverflowIsMinusOne ==
    /\ pc = "classified"
    /\ directive.kind = "digits"
    /\ directive.value = <<"2", "1", "4", "7", "4", "8", "3", "6", "4", "8">>
    /\ parsed.param.number = -1

\* C20: `name=` yields StringParameter(name, ""); `name="..."` yields
\* StringParameter(name, contents), only the outermost quotes removed, the
\* contents possibly empty or holding '=' or '"'; names may hold '.', '_'
\* and '+'.
C20_StringForms ==
    pc = "classified" =>
        /\ directive.kind = "empty" =>
            parsed = Ok(StringParameter(directive.name, <<>>))
        /\ directive.kind = "quoted" =>
            /\ parsed.ok
            /\ parsed.param.variant = "StringParameter"
            /\ parsed.param.name = directive.name
            /\ parsed.param.string = directive.value
        /\ (directive.kind \in {"flag", "disable", "digits", "bare"}) =>
            parsed.ok /\ parsed.param.name = directive.name

C20_QuotedEqualsSign ==
    /\ pc = "classified"
    /\ directive.kind = "quoted"
    /\ Has(directive.name, ".")
    /\ Has(directive.value, "=")
    /\ parsed.param.string = directive.value

\* C21: a bare value that is not disable and not all digits, also one that
\* holds '.', '/', ':' or '-' (an address, a path), is classified as
\* StringParameter(name, V), never as the sentinel.
C21_BareValueIsString ==
    (pc = "classified" /\ directive.kind \in {"bare", "bare_punct"}) =>
        /\ parsed = Ok(StringParameter(directive.name, directive.value))
        /\ convert_to_parameter_list(<<directive.text>>)
               = <<StringParameter(directive.name, directive.value)>>

-----------------------------------------------------------------------------
(* Properties of the name-keyed Configuration *)

DistinctNames(data) ==
    \A i, j \in 1..Len(data) :
        Parameters_name(data[i]) = Parameters_name(data[j]) => i = j

\* C22: Configuration::new stores under each name of the list the last
\* parameter carrying it, holds no other name, and builds the same map from
\* every order of a list whose names are distinct.
C22_LastWriteWins ==
    pc \in {"built", "indexed"} =>
        /\ DOMAIN jail
               = {Parameters_name(parameters[i]) : i \in 1..Len(parameters)}
        /\ \A i \in 1..Len(parameters) :
            (\A j \in (i + 1)..Len(parameters) :
                Parameters_name(parameters[j]) # Parameters_name(parameters[i]))
            => jail[Parameters_name(parameters[i])] = parameters[i]
        /\ DistinctNames(parameters) =>
            \A f \in Permutations(1..Len(parameters)) :
                Configuration_new([i \in 1..Len(parameters)
                                      |-> parameters[f[i]]]) = jail

C22_DuplicateOverwritten ==
    /\ pc = "built"
    /\ Len(parameters) = 2
    /\ Parameters_name(parameters[1]) = Parameters_name(parameters[2])
    /\ parameters[1] # parameters[2]
    /\ jail[Parameters_name(parameters[1])] = parameters[2]

\* C23: config[name] returns the stored Parameter when the name is present
\* and panics when it is absent; it returns no default or sentinel for a
\* missing name and leaves the map as it was built.
C23_IndexPanicsOnAbsent ==
    pc = "indexed" =>
        /\ indexed.name \in DOMAIN jail =>
            ~indexed.panicked /\ indexed.value = jail[indexed.name]
        /\ indexed.name \notin DOMAIN jail => indexed.panicked
        /\ jail = Configuration_new(parameters)

C23_AbsentNamePanicked ==
    /\ pc = "indexed"
    /\ indexed.name = <<"z">>
    /\ Len(parameters) = 2
    /\ indexed.panicked

-----------------------------------------------------------------------------
(* Properties of parses on distinct instances *)

\* C24: parses on distinct ConfigParser instances are independent: under
\* every interleaving of their per-character steps each instance holds, after
\* each of its steps and when its call ends, the Configuration and the state
\* stack of the same parse run alone.
C24_InstancesIndependent ==
    pc = "pair" =>
        \A i \in {1, 2} :
            parsers[i].p
                = parse_content(new, SubSeq(parsers[i].content, 1,
                                            parsers[i].pos))

C24_BothMidParse ==
    /\ pc = "pair"
    /\ parsers[1].pc = "loop" /\ parsers[2].pc = "loop"
    /\ parsers[1].pos = 1 /\ Len(parsers[1].content) = 5
    /\ parsers[2].pos = 2 /\ Len(parsers[2].content) = 9
    /\ parsers[1].p.state_stack # parsers[2].p.state_stack

-----------------------------------------------------------------------------
(* Properties of the flat line parser *)

\* C25: a key line with the += operator or with a comma-separated value
\* produces an Array value: the elements in order, each without surrounding
\* whitespace and double quotes, empty elements dropped.
C25_AppendOrListIsArray ==
    (pc = "flat_parsed" /\ block_line.kind \in {"append", "list"}) =>
        /\ block_line.key \in DOMAIN config_item.values
        /\ config_item.values[block_line.key]
               = ConfigValue_Array(block_line.elements)

-----------------------------------------------------------------------------
(* Termination of the block tokenizer *)

\* C26: every parse_content call terminates: an iteration takes the next
\* character and pushes at most one state (the pop loop of
\* end_block_transition stops), and the call returns after the last
\* character or at the break on Invalid.
C26_ParseTerminates ==
    /\ [][pc = "loop" =>
            /\ pos' \in {pos, pos + 1}
            /\ pos' = pos => pc' = "done"
            /\ Len(state_stack') <= Len(state_stack) + 1]_vars
    /\ [](pc = "done" =>
            pos = Len(content) \/ current_state(state_stack) = "Invalid")
    /\ (pc = "loop") ~> (pc = "done")

C26_BlockParsedToEnd ==
    /\ pc = "done"
    /\ shape.kind = "well_formed"
    /\ Len(shape.dirs) = 2
    /\ pos = Len(content)
    /\ state_stack = <<"Starting", "EndBlock">>

-----------------------------------------------------------------------------
(* Further properties of the block tokenizer *)

\* The parser value before the last character taken, in the first call on a
\* parser built by new.
Before == parse_content(new, SubSeq(content, 1, pos - 1))

FirstCall == Parsing /\ ctor = "new" /\ fresh

\* C27: after the ';' that terminates a directive the current state is
\* Seeking, whether the directive began after whitespace or immediately
\* after '{'.
C27_SeekingAfterDirective ==
    (/\ FirstCall
     /\ pos > 0
     /\ content[pos] = ";"
     /\ current_state(Before.state_stack) = "InDirective")
    => last(state_stack) = "Seeking"

\* C28: Name is only ever the top of the stack, and leaving Name (for
\* StartBlock, Comment or Starting) leaves the name read so far unchanged.
C28_NameOnlyOnTop ==
    /\ [](Parsing =>
            \A i \in 1..(Len(state_stack) - 1) : state_stack[i] # "Name")
    /\ [][(/\ pc = "loop"
           /\ pc' = "loop"
           /\ current_state(state_stack) = "Name"
           /\ current_state(state_stack') # "Name")
          => /\ current_state(state_stack')
                   \in {"StartBlock", "Comment", "Starting"}
             /\ state_stack' = Append(pop(state_stack),
                                      current_state(state_stack'))
                \/ state_stack' = pop(state_stack)
             /\ config'.name = config.name]_vars

C28_BlockEnteredFromName ==
    /\ FirstCall
    /\ pos > 1
    /\ current_state(Before.state_stack) = "Name"
    /\ state_stack = <<"Starting", "StartBlock">>
    /\ config.name = <<"a", "1">>

\* C29: every Starting -> Name transition starts a new name seeded with the
\* character read: of several alphanumeric runs separated by whitespace
\* before '{' the returned name is the last run.
C29_LastRunIsName ==
    (pc = "done" /\ shape.kind = "name_runs") => config.name = shape.name

C29_ThreeRunsParsed ==
    /\ pc = "done"
    /\ shape.kind = "name_runs"
    /\ content = <<"a", " ", "1", "a", " ", "a", "1", " ", "{", " ", "}">>
    /\ config.name = <<"a", "1">>

\* C30: whenever the loop of parse_content takes `}` with Seeking as the
\* current state, the stack after the handler is exactly [Starting, EndBlock],
\* whatever lay above StartBlock.
C30_EndBlockFromSeeking ==
    [][(/\ pc = "loop"
        /\ pos < Len(content)
        /\ current_state(state_stack) = "Seeking"
        /\ content[pos + 1] = "}")
            => state_stack' = <<"Starting", "EndBlock">>]_vars

\* C30 witness: a block closed from Seeking after a directive that was entered
\* from Seeking, so that Seeking lay above StartBlock when `}` was taken.
C30_ClosedFromSeeking ==
    /\ FirstCall /\ pos > 1
    /\ content[pos] = "}"
    /\ current_state(Before.state_stack) = "Seeking"
    /\ Len(Before.state_stack) >= 3
    /\ config.directives # <<>>
    /\ state_stack = <<"Starting", "EndBlock">>

-----------------------------------------------------------------------------
(* Further properties of the state table *)

\* C31 as stated: '{' read after the block has opened, while Seeking and
\* while inside a directive's text, yields Invalid.
C31_NestedBraceIsInvalid ==
    (/\ pc = "table" /\ to_state # "None"
     /\ token = "{"
     /\ from_state \in {"Seeking", "InDirective"})
        => to_state = "Invalid"

\* C31: '{' read after the block has opened yields Invalid in StartBlock,
\* Seeking and EndBlock; inside a directive's text it is a character of the
\* directive like any other and the state stays InDirective.
C31_NestedBraceInvalidOutsideDirective ==
    (pc = "table" /\ to_state # "None" /\ token = "{") =>
        /\ from_state \in {"StartBlock", "Seeking", "EndBlock"}
              => to_state = "Invalid"
        /\ from_state = "InDirective" => to_state = "InDirective"

\* C31 witness: next_state has been applied to InDirective and '{'.
C31_BraceInsideDirective ==
    /\ pc = "table" /\ from_state = "InDirective" /\ token = "{"
    /\ to_state = "InDirective"

\* C32: from StartBlock every alphanumeric character, digits included, starts
\* a directive, exactly as from Seeking.
C32_StartBlockAcceptsAlphanumeric ==
    (/\ pc = "table" /\ to_state # "None"
     /\ from_state = "StartBlock"
     /\ is_ascii_alphanumeric(token))
        => /\ to_state = "InDirective"
           /\ to_state = next_state("Seeking", token)

-----------------------------------------------------------------------------
(* Further properties of the block tokenizer: what a character leaves alone *)

\* C33: while Comment is the current state, taking any character other than
\* '\n' leaves the state stack, the name and every directive's raw text
\* unchanged, and so does taking whitespace in Starting, Seeking or EndBlock.
C33_CommentTextHasNoEffect ==
    [][(/\ pc = "loop"
        /\ pos < Len(content)
        /\ \/ /\ current_state(state_stack) = "Comment"
              /\ content[pos + 1] # "\n"
           \/ /\ current_state(state_stack)
                    \in {"Starting", "Seeking", "EndBlock"}
              /\ is_ascii_whitespace(content[pos + 1]))
            => /\ pos' = pos + 1
               /\ state_stack' = state_stack
               /\ config' = config]_vars

\* C33 witness: a ';' has been taken inside a comment that follows a
\* directive of the block.
C33_SemicolonInComment ==
    /\ FirstCall /\ pos > 1
    /\ content[pos] = ";"
    /\ current_state(Before.state_stack) = "Comment"
    /\ state_stack = Before.state_stack
    /\ config.directives # <<>>
    /\ config.directives = Before.directives

-----------------------------------------------------------------------------
(* Properties of list_jails *)

\* C34: list_jails returns one Configuration per line of the tool's output
\* with the first line, the header, left out, in line order.
C34_HeaderDropped ==
    pc = "listed" =>
        LET ls == lines(stdout)
        IN  /\ Len(jails) = (IF ls = <<>> THEN 0 ELSE Len(ls) - 1)
            /\ \A i \in 1..Len(jails) : jails[i] = jail_of_line(ls[i + 1])

-----------------------------------------------------------------------------
(* Further properties of the block tokenizer: the text of a directive *)

\* C35: a '}' taken while InDirective is the current state never closes the
\* block.  Like whitespace and newlines it leaves the state stack and the
\* name unchanged and is appended to the raw text of the last directive;
\* in the first call on a parser built by new there is such a directive
\* whenever InDirective is the current state.
C35_BraceStaysInDirective ==
    /\ []((FirstCall /\ current_state(state_stack) = "InDirective")
            => config.directives # <<>>)
    /\ [][(/\ pc = "loop"
           /\ pos < Len(content)
           /\ current_state(state_stack) = "InDirective"
           /\ \/ content[pos + 1] = "}"
              \/ is_ascii_whitespace(content[pos + 1]))
            => /\ state_stack' = state_stack
               /\ config'.name = config.name
               /\ Len(config'.directives) = Len(config.directives)
               /\ \A i \in 1..Len(config.directives) :
                    config'.directives[i] =
                        IF i = Len(config.directives)
                        THEN Append(config.directives[i], content[pos + 1])
                        ELSE config.directives[i]]_vars

\* C35 witness: the text ended with the '}' after a directive that has no
\* ';': the call returned with InDirective on top and the '}' in the
\* directive.
C35_LastDirectiveAbsorbsBrace ==
    /\ FirstCall /\ pc = "done"
    /\ pos = Len(content) /\ pos > 2
    /\ content[pos] = "}"
    /\ current_state(Before.state_stack) = "InDirective"
    /\ current_state(state_stack) = "InDirective"
    /\ config.directives # <<>>
    /\ last(last(config.directives)) = "}"

\* The directive being read holds an odd number of '"': the next character
\* is inside a double-quoted value.
InQuotedValue ==
    /\ current_state(state_stack) = "InDirective"
    /\ config.directives # <<>>
    /\ LET d == last(config.directives)
       IN  InsideQuotes(d, Len(d))

\* C36: the block tokenizer has no quote state.  A ';' taken inside a
\* double-quoted value ends the directive there; a '#' taken inside a
\* double-quoted value opens a comment, and neither adds a character to the
\* directive.  The comment hides the rest of the line, a ';' included, so the
\* directive goes on with the text of the next line.
C36_QuotesDoNotProtect ==
    /\ [][(pc = "loop" /\ pos < Len(content) /\ InQuotedValue) =>
            /\ content[pos + 1] = ";" =>
                  /\ state_stack' = pop(state_stack)
                  /\ config' = config
            /\ content[pos + 1] = "#" =>
                  /\ state_stack' = Append(state_stack, "Comment")
                  /\ config' = config]_vars
    /\ []((pc = "done" /\ shape.kind = "quoted") =>
            /\ config.directives # <<>>
            /\ config.directives[1] = shape.dirs[1])

\* C36 witness: a="b#b"; followed by the line b;} has been parsed: the
\* directive is a="bb, the quote never closed.
C36_CommentInQuotedValue ==
    /\ pc = "done" /\ shape.kind = "quoted"
    /\ content = <<"{", "a", "=", "\"", "b", "#", "b", "\"", ";",
                   "\n", "b", ";", "}">>
    /\ config.directives[1] = <<"a", "=", "\"", "b", "b">>

\* How many times state s is on the stack.
Count(stack, s) == Cardinality({i \in DOMAIN stack : stack[i] = s})

\* StartBlock has been pushed: it is on the stack, or EndBlock has taken its
\* place.
BlockOpened ==
    Count(state_stack, "StartBlock") + Count(state_stack, "EndBlock") > 0

\* C37: on a parser built by new the state stack never holds more than
\* five states; it holds at most one StartBlock, one Seeking, one
\* InDirective and one Comment; Seeking and InDirective lie only above a
\* StartBlock; and once StartBlock is on the stack Starting is never again
\* the top: the block stays opened from then on, and Starting is not the top
\* of a stack whose block is opened.
C37_StackWellShaped ==
    /\ [](ctor = "new" =>
            /\ Len(state_stack) <= 5
            /\ \A s \in {"StartBlock", "Seeking", "InDirective", "Comment"} :
                    Count(state_stack, s) <= 1
            /\ \A i \in DOMAIN state_stack :
                    state_stack[i] \in {"Seeking", "InDirective"} =>
                        \E j \in 1..(i - 1) : state_stack[j] = "StartBlock")
    /\ []((ctor = "new" /\ Count(state_stack, "StartBlock") > 0)
            => BlockOpened)
    /\ []((ctor = "new" /\ BlockOpened) => last(state_stack) # "Starting")
    /\ [][(ctor = "new" /\ BlockOpened) => BlockOpened']_vars

\* C37 witness: a comment opened inside a directive that was entered from
\* Seeking: the stack holds five states.
C37_DeepestStack ==
    /\ ctor = "new" /\ pc = "loop"
    /\ state_stack =
         <<"Starting", "StartBlock", "Seeking", "InDirective", "Comment">>

\* C38: a parser built by ConfigParser::default() has an empty state stack,
\* which parse_content takes as Invalid: whatever the text, no character is
\* read, nothing panics and the Configuration returned has an empty name and
\* no directives.
C38_DefaultParserReadsNothing ==
    (Parsing /\ ctor = "default") =>
        /\ state_stack = <<>>
        /\ current_state(state_stack) = "Invalid"
        /\ pos = 0
        /\ pc # "panicked"
        /\ config = Configuration_default

\* C38 witness: a call on a parser built by default has returned for a text
\* that is not empty.
C38_DefaultParserReturned ==
    /\ ctor = "default" /\ pc = "done"
    /\ content # <<>>
    /\ pos = 0
    /\ config = Configuration_default

-----------------------------------------------------------------------------
(* Further properties of the name-keyed Configuration *)

\* The positions of the directives that directive_to_paramter rejected.
Failed == {i \in 1..Len(raw_directives) :
             ~directive_to_paramter(raw_directives[i].text).ok}

\* C39: a Configuration built from a converted list holds as many entries as
\* the list holds distinct names, not as many as there are directives: the
\* directives that failed classification all carry the name "NO NAME" and
\* are one entry of the Configuration.
C39_OneEntryPerName ==
    pc \in {"built", "indexed"} =>
        /\ Len(parameters) = Len(raw_directives)
        /\ Cardinality(DOMAIN jail)
             = Cardinality({Parameters_name(parameters[i]) :
                                i \in 1..Len(parameters)})
        /\ Failed # {} =>
             /\ Parameters_name(NoNameNoValue) \in DOMAIN jail
             /\ jail[Parameters_name(NoNameNoValue)] = NoNameNoValue
             /\ Cardinality(DOMAIN jail)
                  <= Len(raw_directives) - Cardinality(Failed) + 1

\* C39 witness: two directives failed classification and the Configuration
\* built from the two sentinels holds one entry.
C39_FailuresCollapsed ==
    /\ pc = "built"
    /\ Len(raw_directives) = 2
    /\ Cardinality(Failed) = 2
    /\ raw_directives[1] # raw_directives[2]
    /\ Cardinality(DOMAIN jail) = 1

-----------------------------------------------------------------------------
(* Properties of the flat line parser over a block *)

\* The lines the inner loop has parsed so far that set key.
Setting(key) ==
    {i \in 1..block_i : /\ block_lines[i].kind = "key_value"
                        /\ block_lines[i].key = key}

=============================================================================
